---- MODULE Spec2Model ----
(***************************************************************************)
(* Discovery scoring pipeline of the A&R portal: the track / metric /      *)
(* score / run tables, the feature extractors, the two scorers with their  *)
(* threshold gates, and the selectors' score_and_persist and               *)
(* run_discovery_batch.                                                    *)
(*                                                                         *)
(* Time is counted in whole days (a datetime is a day number, timedelta    *)
(* (days=k) is k).  Nullable columns hold NULL.  Real numbers are exact    *)
(* rationals <<n, d>>; only the square root inside the coefficient of     *)
(* variation is rounded (down, to 1/CvScale).                              *)
(***************************************************************************)
EXTENDS Integers, Sequences, FiniteSets, TLC

\* ---------------------------------------------------------------- bounds
Now0 == 400          \* clock reading of the initial state (day number)
MaxEvents == 2       \* clock days plus ingested metric rows while the model runs
MaxScores == 2       \* TrackScore rows that may be inserted
MaxRuns == 1         \* run_discovery_batch calls
CvScale == 50        \* resolution of the rounded coefficient of variation

\* ------------------------------------------------------- column values
NULL == -1
NO_SCORE == <<0, 0>>          \* a NULL trending_score / evergreen_score
NULL_TEXT == "<NULL>"         \* a NULL text column

TrackIds == {"t1", "t2"}      \* ids with a Track row
GhostId == "t9"               \* an id with no Track row
AllIds == TrackIds \cup {GhostId}

\* ------------------------------------------------------------ rationals
RECURSIVE GCD(_, _)
GCD(a, b) == IF b = 0 THEN a ELSE GCD(b, a % b)

Abs(x) == IF x < 0 THEN -x ELSE x

Rat(n, d) ==
    LET g == GCD(Abs(n), d) IN
    IF n = 0 THEN <<0, 1>> ELSE <<n \div g, d \div g>>

RZero == <<0, 1>>
ROne == <<1, 1>>
RInt(k) == <<k, 1>>
RAdd(p, q) == Rat(p[1] * q[2] + q[1] * p[2], p[2] * q[2])
RMul(p, q) == Rat(p[1] * q[1], p[2] * q[2])
RLess(p, q) == p[1] * q[2] < q[1] * p[2]
RLeq(p, q) == p[1] * q[2] <= q[1] * p[2]

\* Python truthiness of a nullable number: None and 0 are falsy.
Truthy(v) == v # NULL /\ v # 0

\* ------------------------------------------------------------- calendar
IsLeap(y) == (y % 4 = 0 /\ y % 100 # 0) \/ y % 400 = 0

DaysInMonth(y, m) ==
    IF m = 2 THEN (IF IsLeap(y) THEN 29 ELSE 28)
    ELSE IF m \in {4, 6, 9, 11} THEN 30 ELSE 31

RECURSIVE YearMonthFrom(_, _, _)
YearMonthFrom(d, y, m) ==
    IF d < DaysInMonth(y, m) THEN <<y, m>>
    ELSE YearMonthFrom(d - DaysInMonth(y, m),
                       IF m = 12 THEN y + 1 ELSE y,
                       IF m = 12 THEN 1 ELSE m + 1)

\* (timestamp.year, timestamp.month) of every day the clock can reach;
\* day 0 is 1 January 2024
MonthTable == [day \in 0..(Now0 + MaxEvents) |-> YearMonthFrom(day, 2024, 1)]

MonthKey(day) == MonthTable[day]

\* ---------------------------------------------------------------- state
VARIABLES
    now,          \* datetime.utcnow(), in days
    tie,          \* which of several rows with equal sort key .first() returns
    tracks,       \* Track rows: id -> [first_discovered]
    metrics,      \* TrackMetric rows per track id, in insertion (id) order
    scores,       \* TrackScore rows, in insertion (id) order
    runs,         \* DiscoveryRun rows, in insertion (id) order
    batch,        \* the running run_discovery_batch call
    last,         \* outcome of the latest score_and_persist call
    ingested,     \* rows appended by ingestion so far
    reply,        \* what the latest read-only call returned to its caller
    scoring,      \* the scoring package: its weight tables and import status
    call,         \* a scoring call in progress, query by query
    pinned,       \* PinnedSong rows, in insertion (id) order
    requests,     \* pinned-song requests in progress, per client
    shortlists    \* Shortlist rows, in insertion (id) order

vars == <<now, tie, tracks, metrics, scores, runs, batch, last, ingested, reply,
          scoring, call, pinned, requests, shortlists>>

\* A TrackMetric row
Metric(ts, streams, s7, pl, spchart, p7, v7, ttchart) ==
    [timestamp |-> ts,
     spotify_streams |-> streams,
     spotify_streams_7d |-> s7,
     spotify_playlist_count |-> pl,
     spotify_chart_position |-> spchart,
     tiktok_posts_7d |-> p7,
     tiktok_views_7d |-> v7,
     tiktok_chart_position |-> ttchart]

\* ------------------------------------------------------------- queries
\* indices of the TrackMetric rows of track_id with lo <= timestamp < hi
\* (hi = NULL: no upper limit)
RowsBetween(track_id, lo, hi) ==
    {i \in 1..Len(metrics[track_id]) :
        /\ metrics[track_id][i].timestamp >= lo
        /\ (hi = NULL \/ metrics[track_id][i].timestamp < hi)}

\* .order_by(<key>.desc()).first() over the rows with indices idx, key[i]
\* being the sort key of row i: 0 stands for None.  Rows with an equal key
\* come back in an order the database chooses; tie fixes that choice.
FirstDesc(idx, key) ==
    IF idx = {} THEN 0
    ELSE IF tie = "lowest_id"
    THEN CHOOSE i \in idx :
            \A j \in idx : key[j] < key[i] \/ (key[j] = key[i] /\ i <= j)
    ELSE CHOOSE i \in idx :
            \A j \in idx : key[j] < key[i] \/ (key[j] = key[i] /\ j <= i)

LatestMetric(track_id, lo, hi) ==
    FirstDesc(RowsBetween(track_id, lo, hi),
              [i \in DOMAIN metrics[track_id] |-> metrics[track_id][i].timestamp])

\* recent / baseline snapshots shared by the velocity features
RecentSnapshot(track_id, short_period) ==
    LatestMetric(track_id, now - short_period, NULL)

\* timestamp <= now - short_period in place of <
BaselineSnapshot_inclusive(track_id, short_period, long_period) ==
    LatestMetric(track_id, now - long_period, now - short_period + 1)

BaselineSnapshot(track_id, short_period, long_period) ==
    LatestMetric(track_id, now - long_period, now - short_period)

\* ---------------------------------------------------- feature extractors
\* the ratio computed once both snapshots exist; r, b are the two values
velocity_ratio(r, b, cap) ==
    IF ~Truthy(r) \/ ~Truthy(b) THEN RZero
    ELSE IF b = 0 THEN (IF r > 0 THEN cap ELSE RZero)
    ELSE Rat(r, b)

\* the body the four velocity features share, from the two snapshot rows
\* (0: the query found none) and the column they compare
snapshot_velocity(track_id, recent, baseline, column, cap) ==
    IF recent = 0 \/ baseline = 0 THEN RZero
    ELSE velocity_ratio(metrics[track_id][recent][column],
                        metrics[track_id][baseline][column], cap)

calculate_posts_velocity(track_id) ==
    snapshot_velocity(track_id, RecentSnapshot(track_id, 7),
                      BaselineSnapshot(track_id, 7, 30), "tiktok_posts_7d", RInt(10))

calculate_views_velocity(track_id) ==
    snapshot_velocity(track_id, RecentSnapshot(track_id, 7),
                      BaselineSnapshot(track_id, 7, 30), "tiktok_views_7d", RInt(10))

calculate_stream_growth(track_id) ==
    snapshot_velocity(track_id, RecentSnapshot(track_id, 7),
                      BaselineSnapshot(track_id, 7, 30), "spotify_streams_7d", RInt(10))

calculate_playlist_growth(track_id) ==
    snapshot_velocity(track_id, RecentSnapshot(track_id, 7),
                      BaselineSnapshot(track_id, 7, 30), "spotify_playlist_count", RInt(5))

\* recent.x and baseline.x and baseline.x > 0 and recent.x > baseline.x
is_growing(r, b) == Truthy(r) /\ Truthy(b) /\ b > 0 /\ r > b

\* `or` in place of `and` in the return statement
snapshot_confirmation_either(track_id, recent, baseline) ==
    IF recent = 0 \/ baseline = 0 THEN FALSE
    ELSE \/ is_growing(metrics[track_id][recent].tiktok_posts_7d,
                       metrics[track_id][baseline].tiktok_posts_7d)
         \/ is_growing(metrics[track_id][recent].spotify_streams_7d,
                       metrics[track_id][baseline].spotify_streams_7d)

snapshot_confirmation(track_id, recent, baseline) ==
    IF recent = 0 \/ baseline = 0 THEN FALSE
    ELSE /\ is_growing(metrics[track_id][recent].tiktok_posts_7d,
                       metrics[track_id][baseline].tiktok_posts_7d)
         /\ is_growing(metrics[track_id][recent].spotify_streams_7d,
                       metrics[track_id][baseline].spotify_streams_7d)

calculate_cross_platform_confirmation(track_id) ==
    snapshot_confirmation(track_id, RecentSnapshot(track_id, 7),
                          BaselineSnapshot(track_id, 7, 30))

has_chart_entry(track_id, lookback_days) ==
    \E i \in RowsBetween(track_id, now - lookback_days, NULL) :
        metrics[track_id][i].tiktok_chart_position # NULL

has_chart_presence(track_id, lookback_days) ==
    \E i \in RowsBetween(track_id, now - lookback_days, NULL) :
        metrics[track_id][i].spotify_chart_position # NULL

get_data_points_count(track_id, lookback_days) ==
    Cardinality(RowsBetween(track_id, now - lookback_days, NULL))

\* the test made on the recent snapshot (0: the query found none)
momentum_of(track_id, recent, threshold_posts_7d) ==
    IF recent = 0 THEN FALSE
    ELSE IF ~Truthy(metrics[track_id][recent].tiktok_posts_7d) THEN FALSE
    ELSE metrics[track_id][recent].tiktok_posts_7d >= threshold_posts_7d

has_tiktok_momentum(track_id, threshold_posts_7d) ==
    momentum_of(track_id, RecentSnapshot(track_id, 7), threshold_posts_7d)

\* a track without any row taken for one with fresh data
recency_of_missing_is_fresh(track_id, latest) ==
    IF latest = 0 THEN ROne
    ELSE IF now - metrics[track_id][latest].timestamp <= 1 THEN ROne
    ELSE IF now - metrics[track_id][latest].timestamp <= 7 THEN <<9, 10>>
    ELSE IF now - metrics[track_id][latest].timestamp <= 30 THEN <<1, 2>>
    ELSE IF now - metrics[track_id][latest].timestamp <= 60 THEN <<1, 5>>
    ELSE RZero

\* the freshness steps, from the age in days of the latest row (0: no row)
recency_of(track_id, latest) ==
    IF latest = 0 THEN RZero
    ELSE IF now - metrics[track_id][latest].timestamp <= 1 THEN ROne
    ELSE IF now - metrics[track_id][latest].timestamp <= 7 THEN <<9, 10>>
    ELSE IF now - metrics[track_id][latest].timestamp <= 30 THEN <<1, 2>>
    ELSE IF now - metrics[track_id][latest].timestamp <= 60 THEN <<1, 5>>
    ELSE RZero

calculate_recency_score(track_id) ==
    recency_of(track_id,
               FirstDesc(DOMAIN metrics[track_id],
                         [i \in DOMAIN metrics[track_id] |-> metrics[track_id][i].timestamp]))

\* (datetime.utcnow() - track.first_discovered).days raises TypeError when
\* first_discovered is None
get_track_age_days_raises(track_id) ==
    tracks[track_id].first_discovered = NULL

RECURSIVE SumRange(_, _, _)
SumRange(q, lo, hi) ==
    IF lo > hi THEN 0
    ELSE IF lo = hi THEN q[lo]
    ELSE LET mid == (lo + hi) \div 2 IN
         SumRange(q, lo, mid) + SumRange(q, mid + 1, hi)

SumSeq(q) == SumRange(q, 1, Len(q))

RECURSIVE GCDRange(_, _, _)
GCDRange(q, lo, hi) ==
    IF lo > hi THEN 0
    ELSE IF lo = hi THEN q[lo]
    ELSE LET mid == (lo + hi) \div 2 IN
         GCD(GCDRange(q, lo, mid), GCDRange(q, mid + 1, hi))

GCDSeq(q) == GCDRange(q, 1, Len(q))

\* floor of the square root
ISqrt(x) == CHOOSE c \in 0..x : c * c <= x /\ (c + 1) * (c + 1) > x

\* spotify_streams of the rows selected by the consistency query, in
\* timestamp order (order is irrelevant to mean and std)
StreamColumn(rows) == [i \in 1..Len(rows) |-> rows[i].spotify_streams]

StreamValues(track_id, lookback_days) ==
    LET inWindow(m) == m.timestamp >= now - lookback_days /\ m.spotify_streams # NULL
    IN  StreamColumn(SelectSeq(metrics[track_id], inWindow))

\* std/mean of a non-empty list of positive numbers, rounded down to a
\* multiple of 1/CvScale: std/mean = sqrt(n*Q - S*S)/S with S the sum and Q
\* the sum of squares; the ratio does not change when every value is
\* divided by a common factor.
Scaled(values, g) == [i \in 1..Len(values) |-> values[i] \div g]

Squares(v) == [i \in 1..Len(v) |-> v[i] * v[i]]

CvOfMoments(n, S, Q) ==
    IF n * Q - S * S >= S * S THEN ROne
    ELSE Rat(ISqrt(((n * Q - S * S) * CvScale * CvScale) \div (S * S)), CvScale)

CvOfScaled(v) == CvOfMoments(Len(v), SumSeq(v), SumSeq(Squares(v)))

CoefficientOfVariation(values) == CvOfScaled(Scaled(values, GCDSeq(values)))

\* min(1.0, x)
AtMostOne(x) == IF RLess(ROne, x) THEN ROne ELSE x

\* min(1.0, max(0, 1 - cv))
consistency_of_cv(cv) ==
    IF RLess(ROne, cv) THEN RZero ELSE AtMostOne(RAdd(ROne, <<-cv[1], cv[2]>>))

\* all: the streams of the rows the query returned; streams: those the
\* list comprehension keeps
consistency_of_streams(all, streams) ==
    IF Len(all) < 30 THEN RZero
    ELSE IF streams = <<>> THEN RZero
    ELSE consistency_of_cv(CoefficientOfVariation(streams))

consistency_of_rows(all) == consistency_of_streams(all, SelectSeq(all, Truthy))

calculate_stream_consistency(track_id, lookback_days) ==
    consistency_of_rows(StreamValues(track_id, lookback_days))

\* rows of the window with spotify_streams > 0
ActiveRows(track_id, lookback_days) ==
    {i \in RowsBetween(track_id, now - lookback_days, NULL) :
        /\ metrics[track_id][i].spotify_streams # NULL
        /\ metrics[track_id][i].spotify_streams > 0}

\* the set of (year, month) keys of these rows
ActiveMonths(track_id, rows) ==
    {MonthKey(metrics[track_id][i].timestamp) : i \in rows}

\* expected_months = lookback_days / 30
active_months_ratio_of(track_id, rows, lookback_days) ==
    IF rows = {} THEN RZero
    ELSE AtMostOne(Rat(Cardinality(ActiveMonths(track_id, rows)) * 30, lookback_days))

calculate_active_months_ratio(track_id, lookback_days) ==
    active_months_ratio_of(track_id, ActiveRows(track_id, lookback_days), lookback_days)

\* ------------------------------------------------------------- weights
\* weights in ten-thousandths: 0.30 is 3000
TRENDING_WEIGHTS ==
    [tiktok_posts_velocity |-> 3000, tiktok_views_velocity |-> 2000,
     spotify_stream_growth |-> 2000, playlist_growth |-> 1500,
     cross_platform_boost |-> 1000, chart_entry_bonus |-> 500]

EVERGREEN_WEIGHTS ==
    [stream_consistency |-> 4000, active_months_ratio |-> 3000,
     low_variance_bonus |-> 2000, chart_persistence |-> 1000]

MIN_THRESHOLDS ==
    [trending_min_tiktok_posts_7d |-> 50,
     trending_min_spotify_streams_7d |-> 10000,
     trending_min_data_points |-> 7,
     evergreen_min_active_months |-> 6,
     evergreen_min_data_points |-> 90,
     evergreen_min_avg_streams |-> 5000]

NORMALIZATION == [max_velocity |-> 10, min_velocity |-> 1]

\* sum(W.values()), in ten-thousandths
RECURSIVE SumOver(_, _)
SumOver(W, names) ==
    IF names = {} THEN 0
    ELSE LET f == CHOOSE x \in names : TRUE IN W[f] + SumOver(W, names \ {f})

SumValues(W) == SumOver(W, DOMAIN W)

\* the assertion on the evergreen table left out
validate_weights_trending_only(trending, evergreen) ==
    Abs(SumValues(trending) - 10000) < 10

\* TRUE when neither assert fails: abs(sum - 1.0) < 0.001 for both tables
validate_weights(trending, evergreen) ==
    /\ Abs(SumValues(trending) - 10000) < 10
    /\ Abs(SumValues(evergreen) - 10000) < 10

\* the scoring package once `from .weights import ...` has run: the module
\* globals the scorers read
Scoring(trending, evergreen, status) ==
    [TRENDING_WEIGHTS |-> trending, EVERGREEN_WEIGHTS |-> evergreen, status |-> status]

\* total_score = 100 * sum(components[f] * weight[f])
WeightedScore(components, weights) ==
    LET names == DOMAIN weights
        RECURSIVE Acc(_)
        Acc(S) == IF S = {} THEN RZero
                  ELSE LET f == CHOOSE x \in S : TRUE IN
                       RAdd(RMul(components[f], Rat(weights[f], 100)), Acc(S \ {f}))
    IN Acc(names)

\* ------------------------------------------------------ trending scorer
\* the `velocity <= min_vel` branch left out
normalize_velocity_without_floor(velocity) ==
    IF RLeq(RInt(NORMALIZATION.max_velocity), velocity) THEN ROne
    ELSE RMul(RAdd(velocity, <<-NORMALIZATION.min_velocity, 1>>),
              <<1, NORMALIZATION.max_velocity - NORMALIZATION.min_velocity>>)

normalize_velocity(velocity) ==
    LET min_vel == RInt(NORMALIZATION.min_velocity)
        max_vel == RInt(NORMALIZATION.max_velocity) IN
    IF RLeq(velocity, min_vel) THEN RZero
    ELSE IF RLeq(max_vel, velocity) THEN ROne
    ELSE RMul(RAdd(velocity, <<-min_vel[1], 1>>),
              <<1, NORMALIZATION.max_velocity - NORMALIZATION.min_velocity>>)

\* the checks made on the recent snapshot (0: the query found none)
Trending_snapshot_passes(track_id, recent) ==
    IF recent = 0 THEN FALSE
    ELSE LET r == metrics[track_id][recent] IN
         IF Truthy(r.tiktok_posts_7d)
            /\ r.tiktok_posts_7d < MIN_THRESHOLDS.trending_min_tiktok_posts_7d
         THEN FALSE
         ELSE IF Truthy(r.spotify_streams_7d)
                 /\ r.spotify_streams_7d < MIN_THRESHOLDS.trending_min_spotify_streams_7d
         THEN FALSE
         ELSE IF get_data_points_count(track_id, 30) < MIN_THRESHOLDS.trending_min_data_points
         THEN FALSE
         ELSE TRUE

Trending_check_thresholds(track_id) ==
    Trending_snapshot_passes(track_id, RecentSnapshot(track_id, 7))

Trending_components(track_id) ==
    [tiktok_posts_velocity |-> normalize_velocity(calculate_posts_velocity(track_id)),
     tiktok_views_velocity |-> normalize_velocity(calculate_views_velocity(track_id)),
     spotify_stream_growth |-> normalize_velocity(calculate_stream_growth(track_id)),
     playlist_growth |-> normalize_velocity(calculate_playlist_growth(track_id)),
     cross_platform_boost |->
         IF calculate_cross_platform_confirmation(track_id) THEN ROne ELSE RZero,
     chart_entry_bonus |->
         IF has_chart_entry(track_id, 30) \/ has_chart_presence(track_id, 30)
         THEN ROne ELSE RZero]

\* the tuple calculate_score returns: (total_score, components, passes_threshold)
ScoreResult(components, weights, passes) ==
    [total_score |-> WeightedScore(components, weights),
     components |-> components,
     passes_threshold |-> passes]

Trending_calculate_score(track_id) ==
    ScoreResult(Trending_components(track_id), scoring.TRENDING_WEIGHTS,
                Trending_check_thresholds(track_id))

\* ----------------------------------------------------- evergreen scorer
\* the checks made on the three values the gate reads; all: the streams of
\* the rows of the last 180 days
Evergreen_gate(data_points, active_ratio, all) ==
    LET counted == SelectSeq(all, Truthy) IN
    IF data_points < MIN_THRESHOLDS.evergreen_min_data_points THEN FALSE
    ELSE IF RLess(active_ratio, Rat(MIN_THRESHOLDS.evergreen_min_active_months, 12))
    THEN FALSE
    ELSE IF all = <<>> THEN FALSE
    \* np.mean([]) is nan, and nan < 5000 is False
    ELSE IF counted = <<>> THEN TRUE
    ELSE IF SumSeq(counted) < MIN_THRESHOLDS.evergreen_min_avg_streams * Len(counted)
    THEN FALSE
    ELSE TRUE

Evergreen_check_thresholds(track_id) ==
    Evergreen_gate(get_data_points_count(track_id, 365),
                   calculate_active_months_ratio(track_id, 365),
                   StreamValues(track_id, 180))

Evergreen_components_of(track_id, consistency) ==
    [stream_consistency |-> consistency,
     active_months_ratio |-> calculate_active_months_ratio(track_id, 365),
     low_variance_bonus |->
         IF RLess(<<4, 5>>, consistency) THEN ROne
         ELSE IF RLess(<<3, 5>>, consistency) THEN <<1, 2>>
         ELSE RZero,
     chart_persistence |->
         IF has_chart_presence(track_id, 180) THEN ROne ELSE RZero]

Evergreen_components(track_id) ==
    Evergreen_components_of(track_id, calculate_stream_consistency(track_id, 180))

Evergreen_calculate_score(track_id) ==
    ScoreResult(Evergreen_components(track_id), scoring.EVERGREEN_WEIGHTS,
                Evergreen_check_thresholds(track_id))

\* ------------------------------------------------------ explainability
\* explain_trending and explain_evergreen both call get_track_age_days,
\* the only statement of score_and_persist that can raise on stored data
explain_raises(track_id) == get_track_age_days_raises(track_id)

TypeErrorMessage == "unsupported operand type(s) for -: 'datetime.datetime' and 'NoneType'"

\* ------------------------------------------------------------ selectors
TrackScore(track_id, trending, evergreen, components) ==
    [track_id |-> track_id,
     computed_at |-> now,
     trending_score |-> trending,
     evergreen_score |-> evergreen,
     components |-> components]

\* Python truthiness of a nullable float: None and 0.0 are falsy
ScoreTruthy(v) == v # NO_SCORE /\ v[1] # 0

\* the same query with the track_id filter forgotten
LatestScore_any_track(track_id) ==
    FirstDesc(DOMAIN scores, [i \in DOMAIN scores |-> scores[i].computed_at])

\* db.query(TrackScore).filter(track_id == ...).order_by(computed_at.desc()).first()
LatestScore(track_id) ==
    FirstDesc({i \in DOMAIN scores : scores[i].track_id = track_id},
              [i \in DOMAIN scores |-> scores[i].computed_at])

\* What one score_and_persist call does in the current state: the value
\* it returns ("none" for None, "row" for the new TrackScore, "raised" for
\* an exception), the rows it inserts and the prior row it consulted.
\* r is the result of calculate_score.
TrendingSelector_persist(track_id, r) ==
    IF ~r.passes_threshold
    THEN [result |-> "none", rows |-> <<>>, existing |-> 0]
    ELSE IF explain_raises(track_id)
    THEN [result |-> "raised", rows |-> <<>>, existing |-> 0]
    ELSE [result |-> "row",
          rows |-> <<TrackScore(track_id, r.total_score, NO_SCORE, r.components)>>,
          existing |-> 0]

\* the explanation generated before the gate is looked at
TrendingSelector_outcome_explain_first(track_id) ==
    LET r == Trending_calculate_score(track_id) IN
    IF explain_raises(track_id)
    THEN [result |-> "raised", rows |-> <<>>, existing |-> 0]
    ELSE TrendingSelector_persist(track_id, r)

TrendingSelector_outcome(track_id) ==
    TrendingSelector_persist(track_id, Trending_calculate_score(track_id))

\* existing_score is the row the carry-forward query returned (0: None)
EvergreenSelector_persist(track_id, r, existing_score) ==
    IF ~r.passes_threshold
    THEN [result |-> "none", rows |-> <<>>, existing |-> 0]
    ELSE IF explain_raises(track_id)
    THEN [result |-> "raised", rows |-> <<>>, existing |-> 0]
    ELSE [result |-> "row",
          rows |-> <<TrackScore(track_id,
                                IF existing_score # 0
                                   /\ ScoreTruthy(scores[existing_score].trending_score)
                                THEN scores[existing_score].trending_score
                                ELSE NO_SCORE,
                                r.total_score, r.components)>>,
          existing |-> existing_score]

EvergreenSelector_outcome(track_id) ==
    EvergreenSelector_persist(track_id, Evergreen_calculate_score(track_id),
                              LatestScore(track_id))

Outcome(kind, track_id) ==
    IF kind = "trending" THEN TrendingSelector_outcome(track_id)
    ELSE EvergreenSelector_outcome(track_id)

\* db.add(track_score); db.commit(); return, o being what the call does
commit_outcome(kind, track_id, o) ==
    /\ scores' = scores \o o.rows
    /\ last' = [op |-> kind, track_id |-> track_id,
                result |-> o.result, existing |-> o.existing]

\* the track's latest row overwritten instead of a new row added
score_and_persist_upsert(kind, track_id) ==
    LET o == Outcome(kind, track_id)
        prior == LatestScore(track_id) IN
    /\ scores' = IF o.rows # <<>> /\ prior # 0
                 THEN [scores EXCEPT ![prior] = o.rows[1]]
                 ELSE scores \o o.rows
    /\ last' = [op |-> kind, track_id |-> track_id,
                result |-> o.result, existing |-> o.existing]

score_and_persist(kind, track_id) ==
    commit_outcome(kind, track_id, Outcome(kind, track_id))

\* POST /refresh/{track_id} of the trending and evergreen routers: the
\* track is looked up first, an unknown id is answered 404 without scoring
Refresh(kind, track_id) ==
    /\ track_id \in DOMAIN tracks
    /\ Len(scores) < MaxScores
    /\ score_and_persist(kind, track_id)
    /\ UNCHANGED <<now, tie, tracks, metrics, runs, batch, ingested, reply, scoring, call, pinned, requests, shortlists>>

\* ---------------------------------------------------- run_discovery_batch
DiscoveryRun(run_type) ==
    [run_type |-> run_type, started_at |-> now, completed_at |-> NULL,
     status |-> "running", tracks_processed |-> 0, tracks_updated |-> 0,
     error_message |-> NULL_TEXT]

IdleBatch ==
    [pc |-> "idle", kind |-> "", track_ids |-> <<>>, i |-> 0,
     tracks_processed |-> 0, tracks_scored |-> 0, run |-> 0, outcome |-> "",
     base |-> 0]

\* lines up to the first db.commit(): the audit row is stored as running
BatchStart(kind, track_ids) ==
    /\ batch.pc = "idle"
    /\ Len(runs) < MaxRuns
    /\ Len(scores) < MaxScores
    /\ runs' = Append(runs, DiscoveryRun(kind))
    /\ batch' = [pc |-> "loop", kind |-> kind, track_ids |-> track_ids, i |-> 1,
                 tracks_processed |-> 0, tracks_scored |-> 0,
                 run |-> Len(runs) + 1, outcome |-> "",
                 \* history: TrackScore rows stored when the call began
                 base |-> Len(scores)]
    /\ UNCHANGED <<now, tie, tracks, metrics, scores, last, ingested, reply, scoring, call, pinned, requests, shortlists>>

\* one iteration without the except clause: the exception reaches the caller
BatchStep_no_except ==
    /\ batch.pc = "loop"
    /\ batch.i <= Len(batch.track_ids)
    /\ LET track_id == batch.track_ids[batch.i] IN
       IF track_id \notin DOMAIN tracks
       THEN /\ batch' = [batch EXCEPT !.i = @ + 1]
            /\ UNCHANGED <<scores, last, runs>>
       ELSE /\ score_and_persist(batch.kind, track_id)
            /\ runs' = runs
            /\ IF last'.result = "raised"
               THEN batch' = [batch EXCEPT !.pc = "idle",
                                           !.tracks_processed = @ + 1,
                                           !.outcome = "raised"]
               ELSE batch' = [batch EXCEPT
                                 !.i = @ + 1,
                                 !.tracks_processed = @ + 1,
                                 !.tracks_scored =
                                     IF last'.result = "row" THEN @ + 1 ELSE @]
    /\ UNCHANGED <<now, tie, tracks, metrics, ingested, reply, scoring, call, pinned, requests, shortlists>>

\* an id without a Track row counted as processed before it is skipped
BatchStep_counts_ghosts ==
    /\ batch.pc = "loop"
    /\ batch.i <= Len(batch.track_ids)
    /\ LET track_id == batch.track_ids[batch.i] IN
       IF track_id \notin DOMAIN tracks
       THEN /\ batch' = [batch EXCEPT !.i = @ + 1, !.tracks_processed = @ + 1]
            /\ UNCHANGED <<scores, last, runs>>
       ELSE /\ score_and_persist(batch.kind, track_id)
            /\ IF last'.result = "raised"
               THEN /\ runs' = [runs EXCEPT ![batch.run].status = "failed",
                                            ![batch.run].error_message = TypeErrorMessage]
                    /\ batch' = [batch EXCEPT !.pc = "idle",
                                              !.tracks_processed = @ + 1,
                                              !.outcome = "returned"]
               ELSE /\ runs' = runs
                    /\ batch' = [batch EXCEPT
                                   !.i = @ + 1,
                                   !.tracks_processed = @ + 1,
                                   !.tracks_scored =
                                       IF last'.result = "row" THEN @ + 1 ELSE @]
    /\ UNCHANGED <<now, tie, tracks, metrics, ingested, reply, scoring, call, pinned, requests, shortlists>>

\* one iteration of the for loop; an exception leaves the loop through the
\* except clause, which marks the run failed, commits and returns
BatchStep ==
    /\ batch.pc = "loop"
    /\ batch.i <= Len(batch.track_ids)
    /\ LET track_id == batch.track_ids[batch.i] IN
       IF track_id \notin DOMAIN tracks
       THEN /\ batch' = [batch EXCEPT !.i = @ + 1]
            /\ UNCHANGED <<scores, last, runs>>
       ELSE /\ score_and_persist(batch.kind, track_id)
            /\ IF last'.result = "raised"
               THEN /\ runs' = [runs EXCEPT ![batch.run].status = "failed",
                                            ![batch.run].error_message = TypeErrorMessage]
                    /\ batch' = [batch EXCEPT !.pc = "idle",
                                              !.tracks_processed = @ + 1,
                                              !.outcome = "returned"]
               ELSE /\ runs' = runs
                    /\ batch' = [batch EXCEPT
                                   !.i = @ + 1,
                                   !.tracks_processed = @ + 1,
                                   !.tracks_scored =
                                       IF last'.result = "row" THEN @ + 1 ELSE @]
    /\ UNCHANGED <<now, tie, tracks, metrics, ingested, reply, scoring, call, pinned, requests, shortlists>>

\* tracks_updated taken from the wrong counter
BatchFinish_counts_processed ==
    /\ batch.pc = "loop"
    /\ batch.i > Len(batch.track_ids)
    /\ runs' = [runs EXCEPT ![batch.run].completed_at = now,
                            ![batch.run].status = "completed",
                            ![batch.run].tracks_processed = batch.tracks_processed,
                            ![batch.run].tracks_updated = batch.tracks_processed]
    /\ batch' = [batch EXCEPT !.pc = "idle", !.outcome = "returned"]
    /\ UNCHANGED <<now, tie, tracks, metrics, scores, last, ingested, reply, scoring, call, pinned, requests, shortlists>>

\* the status assignment left out
BatchFinish_status_left ==
    /\ batch.pc = "loop"
    /\ batch.i > Len(batch.track_ids)
    /\ runs' = [runs EXCEPT ![batch.run].completed_at = now,
                            ![batch.run].tracks_processed = batch.tracks_processed,
                            ![batch.run].tracks_updated = batch.tracks_scored]
    /\ batch' = [batch EXCEPT !.pc = "idle", !.outcome = "returned"]
    /\ UNCHANGED <<now, tie, tracks, metrics, scores, last, ingested, reply, scoring, call, pinned, requests, shortlists>>

\* the loop is exhausted: the run is marked completed, committed, returned
BatchFinish ==
    /\ batch.pc = "loop"
    /\ batch.i > Len(batch.track_ids)
    /\ runs' = [runs EXCEPT ![batch.run].completed_at = now,
                            ![batch.run].status = "completed",
                            ![batch.run].tracks_processed = batch.tracks_processed,
                            ![batch.run].tracks_updated = batch.tracks_scored]
    /\ batch' = [batch EXCEPT !.pc = "idle", !.outcome = "returned"]
    /\ UNCHANGED <<now, tie, tracks, metrics, scores, last, ingested, reply, scoring, call, pinned, requests, shortlists>>

\* ------------------------------------------------------- metric histories
\* n rows, the first at day from, one every step days, with the same values
Series(from, step, n, streams, s7, pl, p7, v7) ==
    [i \in 1..n |-> Metric(from + (i - 1) * step, streams, s7, pl, NULL, p7, v7, NULL)]

\* Histories the ingestion scripts can have stored by day Now0.
History(profile) ==
    \* ten daily rows, TikTok posts 20 -> 200 between baseline and recent
    \* window, Spotify flat
    CASE profile = "viral" ->
            Series(Now0 - 9, 1, 2, NULL, 20000, 40, 20, 9000)
            \o Series(Now0 - 7, 1, 8, NULL, 20000, 40, 200, 9000)
      \* fewer TikTok posts than the trending gate asks for
      [] profile = "weak" ->
            Series(Now0 - 9, 1, 10, NULL, 20000, 40, 10, 9000)
      \* 300 days of constant streams, one row every third day
      [] profile = "steady" ->
            Series(Now0 - 300, 3, 101, 10000, 20000, 40, NULL, NULL)
      \* the same with the 7-day streams doubled in the last week
      [] profile = "rising" ->
            Series(Now0 - 300, 3, 98, 10000, 20000, 40, NULL, NULL)
            \o Series(Now0 - 6, 3, 3, 10000, 40000, 40, NULL, NULL)
      \* ten daily rows, every 7-day figure 0 in the two oldest
      [] profile = "zero_base" ->
            Series(Now0 - 9, 1, 2, NULL, 0, 0, 0, 0)
            \o Series(Now0 - 7, 1, 8, NULL, 20000, 40, 200, 9000)
      \* ten daily rows, every 7-day figure 0 throughout
      [] profile = "zero_both" ->
            Series(Now0 - 9, 1, 10, NULL, 0, 40, 0, 0)
      \* 35 rows in the last 105 days: 25 report 0 streams, 10 report 10000
      [] profile = "sparse_positive" ->
            Series(Now0 - 102, 3, 25, 0, 20000, 40, NULL, NULL)
            \o Series(Now0 - 27, 3, 10, 10000, 20000, 40, NULL, NULL)
      \* streamed until half a year ago, 0 streams reported ever since
      [] profile = "dormant" ->
            Series(Now0 - 364, 3, 62, 10000, 20000, 40, NULL, NULL)
            \o Series(Now0 - 178, 3, 60, 0, 20000, 40, NULL, NULL)
      \* ten daily rows, the latest eleven days old
      [] profile = "stale" ->
            Series(Now0 - 20, 1, 10, NULL, 20000, 40, 200, 9000)
      \* three rows, all of the last three days
      [] profile = "few" ->
            Series(Now0 - 2, 1, 3, NULL, 20000, 40, 200, 9000)
      \* ten daily rows, TikTok posts 20 -> 200 and Spotify 7-day streams
      \* 20000 -> 40000
      [] profile = "both_growing" ->
            Series(Now0 - 9, 1, 2, NULL, 20000, 40, 20, 9000)
            \o Series(Now0 - 7, 1, 8, NULL, 40000, 40, 200, 9000)
      \* daily rows since 1 September 2024: streams in six calendar months
      [] profile = "six_months" ->
            Series(Now0 - 156, 1, 157, 10000, 20000, 40, NULL, NULL)
      \* a row every third day since 1 May 2024: streams in ten months
      [] profile = "ten_months" ->
            Series(Now0 - 279, 3, 94, 10000, 20000, 40, NULL, NULL)
      \* ten daily rows, TikTok posts 10000 -> 20000
      [] profile = "doubled" ->
            Series(Now0 - 9, 1, 2, NULL, 20000, 40, 10000, 9000)
            \o Series(Now0 - 7, 1, 8, NULL, 20000, 40, 20000, 9000)
      \* the same with one more post in the recent window
      [] profile = "doubled_plus" ->
            Series(Now0 - 9, 1, 2, NULL, 20000, 40, 10000, 9000)
            \o Series(Now0 - 7, 1, 8, NULL, 20000, 40, 20001, 9000)

Profiles == {"viral", "weak", "rising"}

\* rows the ingestion collaborator may append (timestamp = utcnow())
Observations ==
    {Metric(now, 10000, 20000, 40, NULL, 10, 9000, NULL)}

\* track_ids lists passed to run_discovery_batch
BatchInputs == {<<>>, <<"t2", GhostId, "t1">>, <<"t1", "t2", "t1">>}

\* no scoring call is in progress
NoCall == [pc |-> "idle", kind |-> "", track_id |-> "", got |-> <<>>, result |-> <<>>]

\* the clients that send pinned-song requests; none has one in progress
Clients == {"c1", "c2"}
NoRequest ==
    [op |-> "", pc |-> "idle", id |-> 0, pin_position |-> 0, notes |-> "",
     status |-> "", response |-> ""]
NoRequests == [c \in Clients |-> NoRequest]

\* no read-only call has returned yet
NoReply == [op |-> "", kind |-> "", track_id |-> "", at |-> 0, rows |-> 0, value |-> 0]

\* ------------------------------------------------------------------ Init
Init ==
    /\ now = Now0
    /\ tie \in {"lowest_id", "highest_id"}
    /\ \E fd \in {NULL, Now0 - 200} :
          tracks = [t \in TrackIds |->
                       [first_discovered |-> IF t = "t2" THEN fd ELSE Now0 - 200]]
    /\ \E p1 \in Profiles, p2 \in {"steady"} :
          metrics = [t \in AllIds |->
                        IF t = "t1" THEN History(p1)
                        ELSE IF t = "t2" THEN History(p2) ELSE <<>>]
    /\ scores = <<>>
    /\ runs = <<>>
    /\ batch = IdleBatch
    /\ last = [op |-> "", track_id |-> "", result |-> "", existing |-> 0]
    /\ ingested = 0
    /\ reply = NoReply
    /\ call = NoCall
    /\ pinned = <<>>
    /\ requests = NoRequests
    /\ shortlists = <<>>
    /\ scoring = Scoring(TRENDING_WEIGHTS, EVERGREEN_WEIGHTS, "loaded")

\* ---------------------------------------------------------------- steps
\* the wall clock advances
Tick ==
    /\ (now - Now0) + ingested < MaxEvents
    /\ now' = now + 1
    /\ UNCHANGED <<tie, tracks, metrics, scores, runs, batch, last, ingested, reply, scoring, call, pinned, requests, shortlists>>

\* the ingestion scripts append a TrackMetric row (never update one)
Ingest(track_id, m) ==
    /\ (now - Now0) + ingested < MaxEvents
    /\ track_id \in DOMAIN tracks
    /\ metrics' = [metrics EXCEPT ![track_id] = Append(@, m)]
    /\ ingested' = ingested + 1
    /\ UNCHANGED <<now, tie, tracks, scores, runs, batch, last, reply, scoring, call, pinned, requests, shortlists>>

\* the refresh endpoints, with the clock and ingestion running alongside
NextPersist ==
    \/ Tick
    \/ \E t \in TrackIds, m \in Observations : Ingest(t, m)
    \/ \E k \in {"trending", "evergreen"}, t \in TrackIds : Refresh(k, t)

SpecPersist == Init /\ [][NextPersist]_vars

\* the batch scripts, with the clock and ingestion running alongside
NextBatch ==
    \/ Tick
    \/ \E t \in TrackIds, m \in Observations : Ingest(t, m)
    \/ \E k \in {"trending", "evergreen"}, ids \in BatchInputs : BatchStart(k, ids)
    \/ BatchStep
    \/ BatchFinish

SpecBatch == Init /\ [][NextBatch]_vars

\* ------------------------------------------------------ read-only calls
\* every metric-based extractor called with its default arguments
FeatureVector(track_id) ==
    [calculate_posts_velocity |-> calculate_posts_velocity(track_id),
     calculate_views_velocity |-> calculate_views_velocity(track_id),
     has_tiktok_momentum |-> has_tiktok_momentum(track_id, 100),
     calculate_cross_platform_confirmation |->
         calculate_cross_platform_confirmation(track_id),
     has_chart_entry |-> has_chart_entry(track_id, 30),
     calculate_stream_consistency |-> calculate_stream_consistency(track_id, 180),
     calculate_stream_growth |-> calculate_stream_growth(track_id),
     calculate_active_months_ratio |-> calculate_active_months_ratio(track_id, 365),
     calculate_playlist_growth |-> calculate_playlist_growth(track_id),
     has_chart_presence |-> has_chart_presence(track_id, 90),
     calculate_recency_score |-> calculate_recency_score(track_id),
     get_data_points_count |-> get_data_points_count(track_id, 90)]

calculate_score(kind, track_id) ==
    IF kind = "trending" THEN Trending_calculate_score(track_id)
    ELSE Evergreen_calculate_score(track_id)

\* what a caller holds after a read-only call: the value, and when and on
\* how many metric rows of the track it was computed
Reply(op, kind, track_id, value) ==
    [op |-> op, kind |-> kind, track_id |-> track_id, at |-> now,
     rows |-> Len(metrics[track_id]), value |-> value]

\* a caller runs the feature extractors on a track
ExtractFeatures(track_id) ==
    /\ track_id \in DOMAIN tracks
    /\ reply' = Reply("features", "", track_id, FeatureVector(track_id))
    /\ UNCHANGED <<now, tie, tracks, metrics, scores, runs, batch, last, ingested, scoring, call, pinned, requests, shortlists>>

\* the call rescales the shared weight tables in place while it sums
CalculateScore_rescales_weights(kind, track_id) ==
    /\ scoring.status = "loaded"
    /\ track_id \in DOMAIN tracks
    /\ reply' = Reply("calculate_score", kind, track_id, calculate_score(kind, track_id))
    /\ scoring' = [scoring EXCEPT
                      !.TRENDING_WEIGHTS = [f \in DOMAIN @ |-> @[f] \div 2],
                      !.EVERGREEN_WEIGHTS = [f \in DOMAIN @ |-> @[f] \div 2]]
    /\ UNCHANGED <<now, tie, tracks, metrics, scores, runs, batch, last, ingested, call, pinned, requests, shortlists>>

\* a caller runs TrendingScorer.calculate_score or
\* EvergreenScorer.calculate_score; the classes exist only if the scoring
\* package was imported
CalculateScore(kind, track_id) ==
    /\ scoring.status = "loaded"
    /\ track_id \in DOMAIN tracks
    /\ reply' = Reply("calculate_score", kind, track_id, calculate_score(kind, track_id))
    /\ UNCHANGED <<now, tie, tracks, metrics, scores, runs, batch, last, ingested, scoring, call, pinned, requests, shortlists>>

\* metric histories the extractors and scorers are run on
FeatureProfiles ==
    {"viral", "weak", "rising", "steady", "zero_base", "zero_both",
     "sparse_positive", "dormant", "stale", "few", "both_growing",
     "six_months", "ten_months"}

\* t1 has some history, t2 has a Track row and no metric row yet
InitFeature ==
    /\ now = Now0
    /\ tie \in {"lowest_id", "highest_id"}
    /\ tracks = [t \in TrackIds |-> [first_discovered |-> Now0 - 200]]
    /\ \E p1 \in FeatureProfiles :
          metrics = [t \in AllIds |-> IF t = "t1" THEN History(p1) ELSE <<>>]
    /\ scores = <<>>
    /\ runs = <<>>
    /\ batch = IdleBatch
    /\ last = [op |-> "", track_id |-> "", result |-> "", existing |-> 0]
    /\ ingested = 0
    /\ reply = NoReply
    /\ call = NoCall
    /\ pinned = <<>>
    /\ requests = NoRequests
    /\ shortlists = <<>>
    /\ scoring = Scoring(TRENDING_WEIGHTS, EVERGREEN_WEIGHTS, "loaded")

NextFeature ==
    \/ Tick
    \/ \E t \in TrackIds, m \in Observations : Ingest(t, m)
    \/ \E t \in TrackIds : ExtractFeatures(t)
    \/ \E k \in {"trending", "evergreen"}, t \in TrackIds : CalculateScore(k, t)

SpecFeature == InitFeature /\ [][NextFeature]_vars

\* ------------------------------------------------------- select_tracks
\* round(x, ndigits) for x >= 0: the nearest multiple of 1/scale, a tie
\* going to the even one
RoundHalfEven(n, d) ==
    LET q == (2 * n + d) \div (2 * d) IN
    IF (2 * n + d) % (2 * d) = 0 /\ q % 2 = 1 THEN q - 1 ELSE q

round(x, scale) == Rat(RoundHalfEven(x[1] * scale, x[2]), scale)

\* db.query(Track).all() has no ORDER BY: the rows come back in an order
\* the database chooses
AllTracks == IF tie = "lowest_id" THEN <<"t1", "t2">> ELSE <<"t2", "t1">>

IsOldEnough(track_id, min_months) ==
    /\ tracks[track_id].first_discovered # NULL
    /\ tracks[track_id].first_discovered <= now - min_months * 30

\* the tracks the selector loops over: every Track row (trending), the
\* rows with first_discovered <= utcnow() - min_months * 30 days (evergreen)
Candidates(kind, min_months) ==
    IF kind = "trending" THEN AllTracks
    ELSE LET old_enough(t) == IsOldEnough(t, min_months)
         IN  SelectSeq(AllTracks, old_enough)

\* not (not passes_threshold or score < min_score)
is_kept(result, min_score) ==
    result.passes_threshold /\ ~RLess(result.total_score, min_score)

\* the dictionary appended for a kept track
SelectedRecord(track_id, result) ==
    [track_id |-> track_id,
     score |-> round(result.total_score, 100),
     components |-> [f \in DOMAIN result.components |->
                        round(result.components[f], 1000)],
     first_discovered |-> tracks[track_id].first_discovered]

\* list.sort(key=score, reverse=True): descending and stable, records of
\* equal key keep the order they were appended in
SortedByScore(records) ==
    LET rank(i) == 1 + Cardinality({j \in DOMAIN records :
                          \/ RLess(records[i].score, records[j].score)
                          \/ (records[j].score = records[i].score /\ j < i)})
    IN  [p \in DOMAIN records |-> records[CHOOSE i \in DOMAIN records : rank(i) = p]]

\* scored_tracks[:limit], limit >= 0
Truncated(records, limit) ==
    SubSeq(records, 1, IF limit < Len(records) THEN limit ELSE Len(records))

\* the loop over the kept candidates, the sort and the truncation;
\* explaining a track whose first_discovered is None raises
selection_of(kept, results, limit) ==
    IF \E i \in DOMAIN kept : explain_raises(kept[i])
    THEN [result |-> "raised", list |-> <<>>]
    ELSE [result |-> "returned",
          list |-> Truncated(SortedByScore(
                      [i \in DOMAIN kept |-> SelectedRecord(kept[i], results[kept[i]])]),
                      limit)]

select_from(candidates, results, limit, min_score) ==
    LET kept_track(t) == is_kept(results[t], min_score)
    IN  selection_of(SelectSeq(candidates, kept_track), results, limit)

select_tracks(kind, limit, min_score, min_months) ==
    select_from(Candidates(kind, min_months),
                [t \in TrackIds |-> calculate_score(kind, t)], limit, min_score)

\* TrackMetric rows stored, over all tracks
TotalRows == SumOver([t \in TrackIds |-> Len(metrics[t])], TrackIds)

\* select_tracks that also stores a score row for what it returns
SelectTracks_persists(kind, limit, min_score) ==
    /\ scoring.status = "loaded"
    /\ reply' = [op |-> "select_tracks", kind |-> kind, track_id |-> "",
                 at |-> now, rows |-> TotalRows,
                 value |-> [limit |-> limit, min_score |-> min_score]
                           @@ select_tracks(kind, limit, min_score, 6)]
    /\ scores' = Append(scores, TrackScore("t1", NO_SCORE, NO_SCORE, <<>>))
    /\ UNCHANGED <<now, tie, tracks, metrics, runs, batch, last, ingested, scoring, call, pinned, requests, shortlists>>

\* a caller runs TrendingSelector.select_tracks or
\* EvergreenSelector.select_tracks (min_months left at its default)
SelectTracks(kind, limit, min_score) ==
    /\ scoring.status = "loaded"
    /\ reply' = [op |-> "select_tracks", kind |-> kind, track_id |-> "",
                 at |-> now, rows |-> TotalRows,
                 value |-> [limit |-> limit, min_score |-> min_score]
                           @@ select_tracks(kind, limit, min_score, 6)]
    /\ UNCHANGED <<now, tie, tracks, metrics, scores, runs, batch, last, ingested, scoring, call, pinned, requests, shortlists>>

\* limit and min_score arguments the callers pass
Limits == {1, 2}
MinScores == {RZero, RInt(3)}

\* two tracks with a stored history each; t2 may be a recent discovery or
\* lack first_discovered
InitSelect ==
    /\ now = Now0
    /\ tie \in {"lowest_id", "highest_id"}
    /\ \E fd \in {NULL, Now0 - 100, Now0 - 200} :
          tracks = [t \in TrackIds |->
                       [first_discovered |-> IF t = "t2" THEN fd ELSE Now0 - 200]]
    /\ \E p1 \in {"doubled", "steady", "weak"}, p2 \in {"doubled_plus"} :
          metrics = [t \in AllIds |->
                        IF t = "t1" THEN History(p1)
                        ELSE IF t = "t2" THEN History(p2) ELSE <<>>]
    /\ scores = <<>>
    /\ runs = <<>>
    /\ batch = IdleBatch
    /\ last = [op |-> "", track_id |-> "", result |-> "", existing |-> 0]
    /\ ingested = 0
    /\ reply = NoReply
    /\ call = NoCall
    /\ pinned = <<>>
    /\ requests = NoRequests
    /\ shortlists = <<>>
    /\ scoring = Scoring(TRENDING_WEIGHTS, EVERGREEN_WEIGHTS, "loaded")

NextSelect ==
    \/ Tick
    \/ \E t \in TrackIds, m \in Observations : Ingest(t, m)
    \/ \E k \in {"trending", "evergreen"}, l \in Limits, s \in MinScores :
          SelectTracks(k, l, s)

SpecSelect == InitSelect /\ [][NextSelect]_vars

\* ------------------------------------------------- loading the weights
\* errors, in ten-thousandths, a maintainer's edit may leave in the sum of
\* a weight table.  The sums are exact here and floating-point in the
\* code: a table whose decimal weights add up to exactly 0.999 or 1.001
\* has a float sum a rounding error to either side of that, so its
\* verdict depends on the literals; the errors drawn are the nearest ones
\* rounding cannot move across the tolerance.
WeightErrors == {-11, -9, 0, 9, 11}

\* the first import of app.core.discovery.scoring executes weights.py,
\* whose last statement is validate_weights(); a failed assertion aborts
\* the import, and TrendingScorer / EvergreenScorer are never bound
ImportScoring ==
    /\ scoring.status = "unloaded"
    /\ scoring' = [scoring EXCEPT !.status =
                      IF validate_weights(scoring.TRENDING_WEIGHTS,
                                          scoring.EVERGREEN_WEIGHTS)
                      THEN "loaded" ELSE "failed"]
    /\ UNCHANGED <<now, tie, tracks, metrics, scores, runs, batch, last, ingested, reply, call, pinned, requests, shortlists>>

\* the process has started and has not imported the scoring package yet;
\* weights.py holds the tables as last edited
InitConfig ==
    /\ now = Now0
    /\ tie \in {"lowest_id", "highest_id"}
    /\ tracks = [t \in TrackIds |-> [first_discovered |-> Now0 - 200]]
    /\ metrics = [t \in AllIds |-> IF t = "t1" THEN History("viral") ELSE <<>>]
    /\ scores = <<>>
    /\ runs = <<>>
    /\ batch = IdleBatch
    /\ last = [op |-> "", track_id |-> "", result |-> "", existing |-> 0]
    /\ ingested = 0
    /\ reply = NoReply
    /\ call = NoCall
    /\ pinned = <<>>
    /\ requests = NoRequests
    /\ shortlists = <<>>
    /\ \E dt \in WeightErrors, de \in WeightErrors :
          scoring = Scoring(
              [TRENDING_WEIGHTS EXCEPT !.chart_entry_bonus = @ + dt],
              [EVERGREEN_WEIGHTS EXCEPT !.chart_persistence = @ + de],
              "unloaded")

NextConfig ==
    \/ Tick
    \/ \E t \in TrackIds, m \in Observations : Ingest(t, m)
    \/ ImportScoring
    \/ \E k \in {"trending", "evergreen"}, t \in TrackIds : CalculateScore(k, t)

SpecConfig == InitConfig /\ [][NextConfig]_vars

\* ------------------------------------- calculate_score, query by query
\* Each scorer issues its queries one after the other, outside any
\* transaction snapshot: got holds what the queries answered so far (row
\* indices, 0 for None; rows never change once stored).

\* recent.x / baseline.x: ZeroDivisionError on 0, TypeError on None; the
\* truthiness test returns before the division is reached
ratio_raises(r, b) ==
    IF ~Truthy(r) \/ ~Truthy(b) THEN FALSE
    ELSE IF b = 0 THEN r = NULL
    ELSE r = NULL \/ b = NULL \/ b = 0

\* the `if not recent or not baseline` test left out: reading a column of
\* None raises AttributeError
velocity_raises_without_none_test(track_id, recent, baseline, column) ==
    \/ recent = 0
    \/ baseline = 0
    \/ ratio_raises(metrics[track_id][recent][column],
                    metrics[track_id][baseline][column])

\* whether a velocity feature raises on the two snapshots it fetched
velocity_raises(track_id, recent, baseline, column) ==
    IF recent = 0 \/ baseline = 0 THEN FALSE
    ELSE ratio_raises(metrics[track_id][recent][column],
                      metrics[track_id][baseline][column])

\* max(streams) raises ValueError on an empty list, std / mean
\* ZeroDivisionError on a zero mean; `not streams` and `mean_streams == 0`
\* are tested first
consistency_raises(all, streams) ==
    IF Len(all) < 30 THEN FALSE
    ELSE IF streams = <<>> THEN FALSE
    ELSE IF SumSeq(streams) = 0 THEN FALSE
    ELSE streams = <<>> \/ SumSeq(streams) = 0

\* the first three tests of TrendingScorer._check_thresholds, made on the
\* recent snapshot before the data points are counted
Trending_snapshot_ok(track_id, recent) ==
    IF recent = 0 THEN FALSE
    ELSE IF Truthy(metrics[track_id][recent].tiktok_posts_7d)
            /\ metrics[track_id][recent].tiktok_posts_7d
                  < MIN_THRESHOLDS.trending_min_tiktok_posts_7d
    THEN FALSE
    ELSE IF Truthy(metrics[track_id][recent].spotify_streams_7d)
            /\ metrics[track_id][recent].spotify_streams_7d
                  < MIN_THRESHOLDS.trending_min_spotify_streams_7d
    THEN FALSE
    ELSE TRUE

\* what the next step of TrendingScorer.calculate_score reads: the two
\* snapshots of each of the five comparing features, the two chart
\* lookups (the second only if the first found nothing), the gate's
\* snapshot and its count (only if the snapshot passed)
Trending_query(track_id, got) ==
    IF Len(got) < 10
    THEN (IF Len(got) % 2 = 0 THEN RecentSnapshot(track_id, 7)
          ELSE BaselineSnapshot(track_id, 7, 30))
    ELSE IF Len(got) = 10 THEN has_chart_entry(track_id, 30)
    ELSE IF Len(got) = 11 THEN (IF got[11] THEN FALSE ELSE has_chart_presence(track_id, 30))
    ELSE IF Len(got) = 12 THEN RecentSnapshot(track_id, 7)
    ELSE IF Trending_snapshot_ok(track_id, got[13])
         THEN get_data_points_count(track_id, 30) ELSE 0

\* EvergreenScorer.calculate_score: consistency, active months, chart
\* lookup, then the gate's three queries (each only if the test before
\* it passed)
Evergreen_query(track_id, got) ==
    IF Len(got) = 0 THEN StreamValues(track_id, 180)
    ELSE IF Len(got) = 1 THEN ActiveRows(track_id, 365)
    ELSE IF Len(got) = 2 THEN has_chart_presence(track_id, 180)
    ELSE IF Len(got) = 3 THEN get_data_points_count(track_id, 365)
    ELSE IF Len(got) = 4
    THEN (IF got[4] < MIN_THRESHOLDS.evergreen_min_data_points THEN {}
          ELSE ActiveRows(track_id, 365))
    ELSE IF RLess(active_months_ratio_of(track_id, got[5], 365),
                  Rat(MIN_THRESHOLDS.evergreen_min_active_months, 12))
         THEN <<>> ELSE StreamValues(track_id, 180)

Trending_result(track_id, got) ==
    ScoreResult(
        [tiktok_posts_velocity |-> normalize_velocity(
             snapshot_velocity(track_id, got[1], got[2], "tiktok_posts_7d", RInt(10))),
         tiktok_views_velocity |-> normalize_velocity(
             snapshot_velocity(track_id, got[3], got[4], "tiktok_views_7d", RInt(10))),
         spotify_stream_growth |-> normalize_velocity(
             snapshot_velocity(track_id, got[5], got[6], "spotify_streams_7d", RInt(10))),
         playlist_growth |-> normalize_velocity(
             snapshot_velocity(track_id, got[7], got[8], "spotify_playlist_count", RInt(5))),
         cross_platform_boost |->
             IF snapshot_confirmation(track_id, got[9], got[10]) THEN ROne ELSE RZero,
         chart_entry_bonus |-> IF got[11] \/ got[12] THEN ROne ELSE RZero],
        scoring.TRENDING_WEIGHTS,
        /\ Trending_snapshot_ok(track_id, got[13])
        /\ got[14] >= MIN_THRESHOLDS.trending_min_data_points)

Trending_raises(track_id, got) ==
    \/ velocity_raises(track_id, got[1], got[2], "tiktok_posts_7d")
    \/ velocity_raises(track_id, got[3], got[4], "tiktok_views_7d")
    \/ velocity_raises(track_id, got[5], got[6], "spotify_streams_7d")
    \/ velocity_raises(track_id, got[7], got[8], "spotify_playlist_count")

Evergreen_components_from(consistency, active_ratio, has_chart) ==
    [stream_consistency |-> consistency,
     active_months_ratio |-> active_ratio,
     low_variance_bonus |->
         IF RLess(<<4, 5>>, consistency) THEN ROne
         ELSE IF RLess(<<3, 5>>, consistency) THEN <<1, 2>>
         ELSE RZero,
     chart_persistence |-> IF has_chart THEN ROne ELSE RZero]

Evergreen_result(track_id, got) ==
    ScoreResult(
        Evergreen_components_from(consistency_of_rows(got[1]),
                                  active_months_ratio_of(track_id, got[2], 365),
                                  got[3]),
        scoring.EVERGREEN_WEIGHTS,
        Evergreen_gate(got[4], active_months_ratio_of(track_id, got[5], 365), got[6]))

Evergreen_raises(track_id, got) ==
    consistency_raises(got[1], SelectSeq(got[1], Truthy))

\* a caller enters calculate_score
CallStart(kind, track_id) ==
    /\ scoring.status = "loaded"
    /\ call.pc \in {"idle", "done"}
    /\ track_id \in DOMAIN tracks
    /\ call' = [pc |-> "query", kind |-> kind, track_id |-> track_id,
                got |-> <<>>, result |-> <<>>]
    /\ UNCHANGED <<now, tie, tracks, metrics, scores, runs, batch, last, ingested,
                   reply, scoring, pinned, requests, shortlists>>

\* the call runs up to and including its next query
CallQuery ==
    /\ call.pc = "query"
    /\ Len(call.got) < (IF call.kind = "trending" THEN 14 ELSE 6)
    /\ call' = [call EXCEPT !.got =
                   Append(@, IF call.kind = "trending"
                             THEN Trending_query(call.track_id, call.got)
                             ELSE Evergreen_query(call.track_id, call.got))]
    /\ UNCHANGED <<now, tie, tracks, metrics, scores, runs, batch, last, ingested,
                   reply, scoring, pinned, requests, shortlists>>

\* the call sums the components up and returns, or has raised on the way
CallReturn ==
    /\ call.pc = "query"
    /\ Len(call.got) = (IF call.kind = "trending" THEN 14 ELSE 6)
    /\ call' = [call EXCEPT
                   !.pc = "done",
                   !.result =
                       IF call.kind = "trending"
                       THEN (IF Trending_raises(call.track_id, call.got)
                             THEN [outcome |-> "raised"]
                             ELSE [outcome |-> "returned"]
                                  @@ Trending_result(call.track_id, call.got))
                       ELSE (IF Evergreen_raises(call.track_id, call.got)
                             THEN [outcome |-> "raised"]
                             ELSE [outcome |-> "returned"]
                                  @@ Evergreen_result(call.track_id, call.got))]
    /\ UNCHANGED <<now, tie, tracks, metrics, scores, runs, batch, last, ingested,
                   reply, scoring, pinned, requests, shortlists>>

\* one track, with no row yet or with a history, scored while the clock
\* and the ingestion run
InitStep ==
    /\ now = Now0
    /\ tie = "lowest_id"
    /\ tracks = [t \in TrackIds |-> [first_discovered |-> Now0 - 200]]
    /\ \E h \in {<<>>, History("stale"), History("viral"), History("steady")} :
          metrics = [t \in AllIds |-> IF t = "t1" THEN h ELSE <<>>]
    /\ scores = <<>>
    /\ runs = <<>>
    /\ batch = IdleBatch
    /\ last = [op |-> "", track_id |-> "", result |-> "", existing |-> 0]
    /\ ingested = 0
    /\ reply = NoReply
    /\ call = NoCall
    /\ pinned = <<>>
    /\ requests = NoRequests
    /\ shortlists = <<>>
    /\ scoring = Scoring(TRENDING_WEIGHTS, EVERGREEN_WEIGHTS, "loaded")

NextStep ==
    \/ Tick
    \/ \E m \in Observations : Ingest("t1", m)
    \/ \E k \in {"trending", "evergreen"} : CallStart(k, "t1")
    \/ CallQuery
    \/ CallReturn

SpecStep == InitStep /\ [][NextStep]_vars

\* ------------------------------- score_and_persist, scoring then explaining
\* f"{velocity:.1f}": the figure printed with one decimal
format_1f(x) == round(x, 10)

\* one entry of why_selected or risk_flags: the wording and the figure
\* formatted into it (<<>>: none)
Sentence(text, figure) == [text |-> text, figure |-> figure]

\* the list holds an entry only if its `if` was taken
When(cond, entry) == IF cond THEN <<entry>> ELSE <<>>

Mentions(list, text) == \E i \in DOMAIN list : list[i].text = text

\* explain_trending, the appends to why_selected: the three velocities are
\* queried again, the components are the ones calculate_score returned
explain_why_selected(track_id, components) ==
    When(RLess(<<1, 2>>, components.tiktok_posts_velocity),
         Sentence("TikTok posts growing",
                  format_1f(calculate_posts_velocity(track_id))))
    \o When(RLess(<<1, 2>>, components.tiktok_views_velocity),
            Sentence("TikTok views accelerating",
                     format_1f(calculate_views_velocity(track_id))))
    \o When(RLess(<<1, 2>>, components.spotify_stream_growth),
            Sentence("Spotify streams up",
                     format_1f(calculate_stream_growth(track_id))))
    \o When(RLess(<<1, 2>>, components.playlist_growth),
            Sentence("Adding to Spotify playlists rapidly", <<>>))
    \o When(components.cross_platform_boost = ROne,
            Sentence("Growing on BOTH TikTok and Spotify (high confidence)", <<>>))
    \o When(components.chart_entry_bonus = ROne,
            Sentence("Appeared on TikTok or Spotify charts", <<>>))

\* the two presence warnings, from the latest row of the past 7 days
\* (0: the query found none)
presence_flags(track_id, recent) ==
    IF recent = 0 THEN <<>>
    ELSE When(~Truthy(metrics[track_id][recent].tiktok_posts_7d)
                 \/ metrics[track_id][recent].tiktok_posts_7d < 50,
              Sentence("Low/no TikTok presence", <<>>))
         \o When(~Truthy(metrics[track_id][recent].spotify_streams_7d)
                    \/ metrics[track_id][recent].spotify_streams_7d < 10000,
                 Sentence("Low Spotify streams", <<>>))

\* the single-platform warning appended whatever the boost is
explain_risk_flags_unconditional(track_id, components) ==
    <<Sentence("Single-platform growth only (may not translate)", <<>>)>>
    \o When(now - tracks[track_id].first_discovered < 7,
            Sentence("Very new to system",
                     <<now - tracks[track_id].first_discovered>>))
    \o When(get_data_points_count(track_id, 30) < 15,
            Sentence("Limited historical data",
                     <<get_data_points_count(track_id, 30)>>))
    \o presence_flags(track_id, RecentSnapshot(track_id, 7))

\* explain_trending, the appends to risk_flags
explain_risk_flags(track_id, components) ==
    When(components.cross_platform_boost # ROne,
         Sentence("Single-platform growth only (may not translate)", <<>>))
    \o When(now - tracks[track_id].first_discovered < 7,
            Sentence("Very new to system",
                     <<now - tracks[track_id].first_discovered>>))
    \o When(get_data_points_count(track_id, 30) < 15,
            Sentence("Limited historical data",
                     <<get_data_points_count(track_id, 30)>>))
    \o presence_flags(track_id, RecentSnapshot(track_id, 7))

explain_trending(track_id, components) ==
    [why_selected |-> explain_why_selected(track_id, components),
     risk_flags |-> explain_risk_flags(track_id, components)]

\* r: what calculate_score returned
ScoreTrack_with(track_id, r) ==
    IF r.passes_threshold
    THEN /\ call' = [pc |-> "scored", kind |-> "trending", track_id |-> track_id,
                     got |-> <<>>, result |-> r]
         /\ UNCHANGED last
    ELSE /\ call' = [pc |-> "done", kind |-> "trending", track_id |-> track_id,
                     got |-> <<>>, result |-> [outcome |-> "none"]]
         /\ last' = [op |-> "trending", track_id |-> track_id,
                     result |-> "none", existing |-> 0]

\* TrendingSelector.score_and_persist up to the gate: calculate_score,
\* and None returned when the gate fails
ScoreTrack(track_id) ==
    /\ scoring.status = "loaded"
    /\ call.pc \in {"idle", "done"}
    /\ track_id \in DOMAIN tracks
    /\ Len(scores) < MaxScores
    /\ ScoreTrack_with(track_id, Trending_calculate_score(track_id))
    /\ UNCHANGED <<now, tie, tracks, metrics, scores, runs, batch, ingested,
                   reply, scoring, pinned, requests, shortlists>>

\* the rest of score_and_persist: explain_trending on the components
\* scored before, then the TrackScore row (whose why_selected and
\* risk_flags are kept in call.result), db.add and db.commit
ExplainAndPersist ==
    /\ call.pc = "scored"
    /\ IF explain_raises(call.track_id)
       THEN /\ call' = [call EXCEPT !.pc = "done",
                                    !.result = [outcome |-> "raised"]]
            /\ last' = [op |-> "trending", track_id |-> call.track_id,
                        result |-> "raised", existing |-> 0]
            /\ UNCHANGED scores
       ELSE /\ call' = [call EXCEPT
                           !.pc = "done",
                           !.result = [outcome |-> "row",
                                       components |-> call.result.components]
                                      @@ explain_trending(call.track_id,
                                                          call.result.components)]
            /\ scores' = Append(scores,
                                TrackScore(call.track_id, call.result.total_score,
                                           NO_SCORE, call.result.components))
            /\ last' = [op |-> "trending", track_id |-> call.track_id,
                        result |-> "row", existing |-> 0]
    /\ UNCHANGED <<now, tie, tracks, metrics, runs, batch, ingested,
                   reply, scoring, pinned, requests, shortlists>>

ExplainProfiles == {"viral", "both_growing", "weak"}

\* one track scored and explained while the clock and the ingestion run
InitExplain ==
    /\ now = Now0
    /\ tie \in {"lowest_id", "highest_id"}
    /\ \E fd \in {NULL, Now0 - 200, Now0 - 3} :
          tracks = [t \in TrackIds |-> [first_discovered |-> fd]]
    /\ \E p \in ExplainProfiles :
          metrics = [t \in AllIds |-> IF t = "t1" THEN History(p) ELSE <<>>]
    /\ scores = <<>>
    /\ runs = <<>>
    /\ batch = IdleBatch
    /\ last = [op |-> "", track_id |-> "", result |-> "", existing |-> 0]
    /\ ingested = 0
    /\ reply = NoReply
    /\ call = NoCall
    /\ pinned = <<>>
    /\ requests = NoRequests
    /\ shortlists = <<>>
    /\ scoring = Scoring(TRENDING_WEIGHTS, EVERGREEN_WEIGHTS, "loaded")

NextExplain ==
    \/ Tick
    \/ \E m \in Observations : Ingest("t1", m)
    \/ ScoreTrack("t1")
    \/ ExplainAndPersist

SpecExplain == InitExplain /\ [][NextExplain]_vars

\* ---------------------------------------------------------- pinned songs
\* pin_position: int = Query(..., ge=1, le=20), two of the positions
Positions == {1, 2}

\* a pinned_songs row; its id is its index in pinned
PinnedSong(pin_position, notes) ==
    [pin_position |-> pin_position, is_active |-> TRUE, notes |-> notes]

\* .filter(pin_position == p, is_active == True, id != other)
ActiveAt(rows, p, other) ==
    {i \in DOMAIN rows :
        rows[i].pin_position = p /\ rows[i].is_active /\ i # other}

\* the table without its unique constraint
unique_violation_never(p, id) == FALSE

\* pin_position is unique=True: the database refuses a second row with
\* the value, whatever is_active says (id: the row being written, 0 for
\* an insert)
unique_violation(p, id) ==
    \E i \in DOMAIN pinned : i # id /\ pinned[i].pin_position = p

Answer(c, op, id, p, notes, pc, response) ==
    requests' = [requests EXCEPT ![c] =
                    [op |-> op, pc |-> pc, id |-> id, pin_position |-> p,
                     notes |-> notes, status |-> "", response |-> response]]

\* add_pinned_song up to db.add: the position query, 409 if it is taken
AddCheck(c, p, notes) ==
    /\ requests[c].pc \in {"idle", "done"}
    /\ IF ActiveAt(pinned, p, 0) # {}
       THEN Answer(c, "add", 0, p, notes, "done", "409")
       ELSE Answer(c, "add", 0, p, notes, "commit", "")
    /\ UNCHANGED <<now, tie, tracks, metrics, scores, runs, batch, last, ingested,
                   reply, scoring, call, pinned, shortlists>>

\* db.commit() of add_pinned_song: the INSERT, refused by the unique
\* constraint (IntegrityError, answered 500) or stored
AddCommit(c) ==
    /\ requests[c].pc = "commit"
    /\ requests[c].op = "add"
    /\ IF unique_violation(requests[c].pin_position, 0)
       THEN /\ requests' = [requests EXCEPT ![c].pc = "done", ![c].response = "500"]
            /\ UNCHANGED pinned
       ELSE /\ pinned' = Append(pinned, PinnedSong(requests[c].pin_position,
                                                   requests[c].notes))
            /\ requests' = [requests EXCEPT ![c].pc = "done", ![c].response = "200",
                                            ![c].id = Len(pinned) + 1]
    /\ UNCHANGED <<now, tie, tracks, metrics, scores, runs, batch, last, ingested,
                   reply, scoring, call, shortlists>>

\* remove_pinned_song up to the assignment: 404 if the id is unknown
RemoveCheck(c, id) ==
    /\ requests[c].pc \in {"idle", "done"}
    /\ IF id \notin DOMAIN pinned
       THEN Answer(c, "remove", id, 0, NULL_TEXT, "done", "404")
       ELSE Answer(c, "remove", id, 0, NULL_TEXT, "commit", "")
    /\ UNCHANGED <<now, tie, tracks, metrics, scores, runs, batch, last, ingested,
                   reply, scoring, call, pinned, shortlists>>

\* pinned.is_active = False; db.commit()
RemoveCommit(c) ==
    /\ requests[c].pc = "commit"
    /\ requests[c].op = "remove"
    /\ pinned' = [pinned EXCEPT ![requests[c].id].is_active = FALSE]
    /\ requests' = [requests EXCEPT ![c].pc = "done", ![c].response = "200"]
    /\ UNCHANGED <<now, tie, tracks, metrics, scores, runs, batch, last, ingested,
                   reply, scoring, call, shortlists>>

\* update_pinned_song up to db.commit: 404 if the id is unknown, 409 if
\* the new position is held by another active song; p = 0 and notes =
\* NULL_TEXT stand for None.  The record keeps the position to write (0:
\* the attribute is not assigned).
UpdateCheck(c, id, p, notes) ==
    /\ requests[c].pc \in {"idle", "done"}
    /\ IF id \notin DOMAIN pinned
       THEN Answer(c, "update", id, p, notes, "done", "404")
       ELSE IF p # 0 /\ p # pinned[id].pin_position
       THEN (IF ActiveAt(pinned, p, id) # {}
             THEN Answer(c, "update", id, p, notes, "done", "409")
             ELSE Answer(c, "update", id, p, notes, "commit", ""))
       ELSE Answer(c, "update", id, 0, notes, "commit", "")
    /\ UNCHANGED <<now, tie, tracks, metrics, scores, runs, batch, last, ingested,
                   reply, scoring, call, pinned, shortlists>>

\* db.commit() of update_pinned_song: the UPDATE of the assigned columns
UpdateCommit(c) ==
    /\ requests[c].pc = "commit"
    /\ requests[c].op = "update"
    /\ IF requests[c].pin_position # 0
          /\ unique_violation(requests[c].pin_position, requests[c].id)
       THEN /\ requests' = [requests EXCEPT ![c].pc = "done", ![c].response = "500"]
            /\ UNCHANGED pinned
       ELSE /\ pinned' = [pinned EXCEPT
                             ![requests[c].id].pin_position =
                                 IF requests[c].pin_position # 0
                                 THEN requests[c].pin_position ELSE @,
                             ![requests[c].id].notes =
                                 IF requests[c].notes # NULL_TEXT
                                 THEN requests[c].notes ELSE @]
            /\ requests' = [requests EXCEPT ![c].pc = "done", ![c].response = "200"]
    /\ UNCHANGED <<now, tie, tracks, metrics, scores, runs, batch, last, ingested,
                   reply, scoring, call, shortlists>>

\* no pinned song yet
InitPinned ==
    /\ now = Now0
    /\ tie = "lowest_id"
    /\ tracks = [t \in TrackIds |-> [first_discovered |-> Now0 - 200]]
    /\ metrics = [t \in AllIds |-> <<>>]
    /\ scores = <<>>
    /\ runs = <<>>
    /\ batch = IdleBatch
    /\ last = [op |-> "", track_id |-> "", result |-> "", existing |-> 0]
    /\ ingested = 0
    /\ reply = NoReply
    /\ call = NoCall
    /\ pinned = <<>>
    /\ requests = NoRequests
    /\ shortlists = <<>>
    /\ scoring = Scoring(TRENDING_WEIGHTS, EVERGREEN_WEIGHTS, "loaded")

\* the pinned-song endpoints served to two callers at a time
NextPinned ==
    \/ \E c \in Clients, p \in Positions : AddCheck(c, p, NULL_TEXT)
    \/ \E c \in Clients : AddCommit(c)
    \/ \E c \in Clients, id \in 1..(Len(pinned) + 1) : RemoveCheck(c, id)
    \/ \E c \in Clients : RemoveCommit(c)
    \/ \E c \in Clients, id \in 1..(Len(pinned) + 1), p \in Positions \cup {0},
          notes \in {NULL_TEXT, "checked"} : UpdateCheck(c, id, p, notes)
    \/ \E c \in Clients : UpdateCommit(c)

SpecPinned == InitPinned /\ [][NextPinned]_vars

\* ------------------------------------------------------------- shortlists
Users == {"ar1", "ar2"}             \* accounts with a User row
ItemIds == {1, 2}                   \* ids the shortlists table hands out
valid_statuses == {"new", "contacted", "interested", "passed", "signed"}
\* the status values sent with an update (NULL_TEXT: none sent)
StatusInputs == {NULL_TEXT, "contacted", "interested", "archived"}

\* a shortlists row; its id is its index in shortlists
Shortlist(track_id, user_id) ==
    [track_id |-> track_id, user_id |-> user_id, status |-> "new",
     priority |-> 0, notes |-> NULL_TEXT, contacted_at |-> NULL,
     deleted |-> FALSE]

\* what is left at the index of a row after db.delete
DeletedRow ==
    [track_id |-> "", user_id |-> "", status |-> "", priority |-> 0,
     notes |-> NULL_TEXT, contacted_at |-> NULL, deleted |-> TRUE]

\* db.query(Shortlist).filter(id == shortlist_id, user_id == user.id).first()
OwnItem(shortlist_id, user) ==
    /\ shortlist_id \in DOMAIN shortlists
    /\ ~shortlists[shortlist_id].deleted
    /\ shortlists[shortlist_id].user_id = user

ShortlistAnswer(op, id, status, response) ==
    requests' = [requests EXCEPT !["c1"] =
                    [op |-> op, pc |-> "done", id |-> id, pin_position |-> 0,
                     notes |-> "", status |-> status, response |-> response]]

\* POST /shortlists: 404 for an unknown track, 400 for a track the user
\* has shortlisted already, else a row with status 'new'
AddToShortlist(user, track_id) ==
    /\ IF track_id \notin DOMAIN tracks
       THEN ShortlistAnswer("add_to_shortlist", 0, "", "404") /\ UNCHANGED shortlists
       ELSE IF \E i \in DOMAIN shortlists :
                  /\ ~shortlists[i].deleted
                  /\ shortlists[i].track_id = track_id
                  /\ shortlists[i].user_id = user
       THEN ShortlistAnswer("add_to_shortlist", 0, "", "400") /\ UNCHANGED shortlists
       ELSE /\ Len(shortlists) < Cardinality(ItemIds)
            /\ shortlists' = Append(shortlists, Shortlist(track_id, user))
            /\ ShortlistAnswer("add_to_shortlist", Len(shortlists) + 1, "", "200")
    /\ UNCHANGED <<now, tie, tracks, metrics, scores, runs, batch, last, ingested,
                   reply, scoring, call, pinned>>

\* contacted_at stamped at every update to 'contacted'
updated_item_restamped(item, status, priority, notes) ==
    [item EXCEPT
        !.status = IF status # NULL_TEXT THEN status ELSE @,
        !.contacted_at = IF status = "contacted" THEN now ELSE @,
        !.priority = IF priority # NULL THEN priority ELSE @,
        !.notes = IF notes # NULL_TEXT THEN notes ELSE @]

\* the assignments of update_shortlist_item (NULL_TEXT, NULL: not sent)
updated_item(item, status, priority, notes) ==
    [item EXCEPT
        !.status = IF status # NULL_TEXT THEN status ELSE @,
        !.contacted_at = IF status = "contacted" /\ @ = NULL THEN now ELSE @,
        !.priority = IF priority # NULL THEN priority ELSE @,
        !.notes = IF notes # NULL_TEXT THEN notes ELSE @]

\* PATCH /shortlists/{id}: 404 for an item that is not the user's, 400 for
\* an invalid status before anything is assigned, else the update
UpdateShortlistItem(user, shortlist_id, status, priority, notes) ==
    /\ IF ~OwnItem(shortlist_id, user)
       THEN ShortlistAnswer("update_shortlist_item", shortlist_id, status, "404")
            /\ UNCHANGED shortlists
       ELSE IF status # NULL_TEXT /\ status \notin valid_statuses
       THEN ShortlistAnswer("update_shortlist_item", shortlist_id, status, "400")
            /\ UNCHANGED shortlists
       ELSE /\ shortlists' = [shortlists EXCEPT ![shortlist_id] =
                                 updated_item(@, status, priority, notes)]
            /\ ShortlistAnswer("update_shortlist_item", shortlist_id, status, "200")
    /\ UNCHANGED <<now, tie, tracks, metrics, scores, runs, batch, last, ingested,
                   reply, scoring, call, pinned>>

\* DELETE /shortlists/{id}
RemoveFromShortlist(user, shortlist_id) ==
    /\ IF ~OwnItem(shortlist_id, user)
       THEN ShortlistAnswer("remove_from_shortlist", shortlist_id, "", "404")
            /\ UNCHANGED shortlists
       ELSE /\ shortlists' = [shortlists EXCEPT ![shortlist_id] = DeletedRow]
            /\ ShortlistAnswer("remove_from_shortlist", shortlist_id, "", "200")
    /\ UNCHANGED <<now, tie, tracks, metrics, scores, runs, batch, last, ingested,
                   reply, scoring, call, pinned>>

\* an empty shortlist
InitShortlist ==
    /\ now = Now0
    /\ tie = "lowest_id"
    /\ tracks = [t \in TrackIds |-> [first_discovered |-> Now0 - 200]]
    /\ metrics = [t \in AllIds |-> <<>>]
    /\ scores = <<>>
    /\ runs = <<>>
    /\ batch = IdleBatch
    /\ last = [op |-> "", track_id |-> "", result |-> "", existing |-> 0]
    /\ ingested = 0
    /\ reply = NoReply
    /\ call = NoCall
    /\ pinned = <<>>
    /\ requests = NoRequests
    /\ shortlists = <<>>
    /\ scoring = Scoring(TRENDING_WEIGHTS, EVERGREEN_WEIGHTS, "loaded")

\* the shortlist endpoints, one request at a time, while the clock runs
NextShortlist ==
    \/ Tick
    \/ \E u \in Users, t \in {"t1", GhostId} : AddToShortlist(u, t)
    \/ \E u \in Users, id \in ItemIds, st \in StatusInputs, pr \in {NULL, 2},
          n \in {NULL_TEXT, "called"} : UpdateShortlistItem(u, id, st, pr, n)
    \/ \E u \in Users, id \in ItemIds : RemoveFromShortlist(u, id)

SpecShortlist == InitShortlist /\ [][NextShortlist]_vars

\* ================================================================ claims
\* index of the most recent TrackScore row of a track (0: none); the clock
\* never runs backwards, so it is the row inserted last
PriorRow(track_id) ==
    LET idx == {i \in 1..Len(scores) : scores[i].track_id = track_id} IN
    IF idx = {} THEN 0 ELSE CHOOSE i \in idx : \A j \in idx : j <= i

\* a step in which score_and_persist ran and returned something new or
\* stored a row
CallStep == last' # last \/ scores' # scores

\* a step in which score_and_persist stored a row
InsertStep == Len(scores') = Len(scores) + 1

NewRow == scores'[Len(scores')]

\* C1: whenever TrendingSelector.score_and_persist stores a row for a track
\* whose most recent prior row has a non-null evergreen_score, the new row's
\* evergreen_score equals that prior value.
C1_TrendingCarriesEvergreen ==
    [][(/\ InsertStep
        /\ last'.op = "trending"
        /\ PriorRow(last'.track_id) # 0
        /\ scores[PriorRow(last'.track_id)].evergreen_score # NO_SCORE)
       => NewRow.evergreen_score = scores[PriorRow(last'.track_id)].evergreen_score]_vars

\* C2: whenever EvergreenSelector.score_and_persist stores a row for a track
\* whose most recent prior row has a non-null trending_score (0.0 included),
\* the new row's trending_score equals that prior value.
C2_EvergreenCarriesTrending ==
    [][(/\ InsertStep
        /\ last'.op = "evergreen"
        /\ PriorRow(last'.track_id) # 0
        /\ scores[PriorRow(last'.track_id)].trending_score # NO_SCORE)
       => NewRow.trending_score = scores[PriorRow(last'.track_id)].trending_score]_vars

\* C3: once some row of a track holds a non-null trending_score
\* (evergreen_score), the most recent row of the track holds a non-null
\* value of that score too.
C3_NoScoreErased ==
    \A i \in 1..Len(scores) :
        LET latest == scores[PriorRow(scores[i].track_id)] IN
        /\ scores[i].trending_score # NO_SCORE => latest.trending_score # NO_SCORE
        /\ scores[i].evergreen_score # NO_SCORE => latest.evergreen_score # NO_SCORE

\* C4: score_and_persist never updates or deletes a TrackScore row, every
\* call that produces a score adds exactly one row for its track, and
\* computed_at is non-decreasing in insertion order.
C4_AppendOnly ==
    /\ [][/\ Len(scores') >= Len(scores)
          /\ Len(scores') <= Len(scores) + 1
          /\ SubSeq(scores', 1, Len(scores)) = scores
          /\ (CallStep /\ last'.result = "row")
                => (InsertStep /\ NewRow.track_id = last'.track_id)]_vars
    /\ [](\A i, j \in 1..Len(scores) :
            i < j => scores[i].computed_at <= scores[j].computed_at)

\* two rows of one track, stored on different days
C4_Witness ==
    \E i, j \in 1..Len(scores) :
        /\ i < j
        /\ scores[i].track_id = scores[j].track_id
        /\ scores[i].computed_at < scores[j].computed_at

\* the TrackScore rows of one track, in insertion order
RowsOf(rows, track_id) ==
    LET mine(r) == r.track_id = track_id IN SelectSeq(rows, mine)

\* C5: a score_and_persist call for track t changes no TrackMetric row, no
\* Track row and no TrackScore row of another track; it stores at most one
\* new row, whose track_id is t.  What a call for a different track reads
\* (its metrics, its Track row, its own score rows and the prior row its
\* query returns) is therefore the same before and after, so calls for
\* different tracks commute.
C5_FrameOfScoreAndPersist ==
    [][CallStep =>
        /\ metrics' = metrics
        /\ tracks' = tracks
        /\ runs' = runs
        /\ SubSeq(scores', 1, Len(scores)) = scores
        /\ \/ scores' = scores
           \/ InsertStep /\ NewRow.track_id = last'.track_id
        /\ \A u \in TrackIds \ {last'.track_id} :
               /\ RowsOf(scores', u) = RowsOf(scores, u)
               /\ LatestScore(u)' = LatestScore(u)]_vars

\* a call stored a row for one track while rows of the other track exist
C5_Witness ==
    /\ last.result = "row"
    /\ \E i, j \in 1..Len(scores) : scores[i].track_id # scores[j].track_id

\* the threshold gate of either scorer
Gate(kind, track_id) ==
    IF kind = "trending" THEN Trending_check_thresholds(track_id)
    ELSE Evergreen_check_thresholds(track_id)

\* C6: when the threshold gate fails for the track, score_and_persist
\* returns None, raises nothing and stores no TrackScore row.
C6_GateFailureReturnsNone ==
    [][(/\ CallStep
        /\ ~Gate(last'.op, last'.track_id))
       => (last'.result = "none" /\ scores' = scores)]_vars

\* a call on a track that fails the gate has returned None, and the track
\* has no first_discovered (explaining it would have raised)
C6_Witness ==
    /\ last.result = "none"
    /\ last.track_id \in TrackIds
    /\ ~Gate(last.op, last.track_id)
    /\ tracks[last.track_id].first_discovered = NULL

\* --------------------------------------------------- run_discovery_batch
\* the step of the running batch that processes an existing track
ProcessStep(track_id) ==
    /\ batch.pc = "loop"
    /\ batch' # batch
    /\ batch.i <= Len(batch.track_ids)
    /\ batch.track_ids[batch.i] = track_id
    /\ track_id \in DOMAIN tracks

\* C7: if processing a track raises inside run_discovery_batch, the call
\* still returns: the run is 'failed' with a non-null error_message, the
\* rows stored for earlier tracks stay stored, and no later id of the batch
\* is processed.
C7_BatchFailureIsContained ==
    /\ [][\A t \in TrackIds :
            (ProcessStep(t) /\ Outcome(batch.kind, t).result = "raised")
            => /\ batch'.pc = "idle"
               /\ batch'.outcome = "returned"
               /\ runs'[batch.run].status = "failed"
               /\ runs'[batch.run].error_message # NULL_TEXT
               /\ scores' = scores]_vars
    /\ [][(batch.run # 0 /\ runs[batch.run].status = "failed")
            => /\ SubSeq(scores', 1, Len(scores)) = scores
               /\ \/ batch'.run # batch.run
                  \/ (batch' = batch /\ scores' = scores)]_vars

\* a batch failed on its second id after storing a row for its first, with
\* a third id left over
C7_Witness ==
    /\ batch.pc = "idle"
    /\ batch.run # 0
    /\ runs[batch.run].status = "failed"
    /\ batch.i = 2
    /\ Len(batch.track_ids) > 2
    /\ Len(scores) = batch.base + 1

\* C8: when run_discovery_batch fails on the k-th attempted track, the
\* run's tracks_processed equals k.
C8_FailedRunCountsAttempts ==
    (batch.pc = "idle" /\ batch.run # 0 /\ runs[batch.run].status = "failed")
    => runs[batch.run].tracks_processed = batch.tracks_processed

\* ids of the batch that match a Track row
RECURSIVE CountKnown(_, _)
CountKnown(ids, n) ==
    IF n = 0 THEN 0
    ELSE CountKnown(ids, n - 1) + (IF ids[n] \in DOMAIN tracks THEN 1 ELSE 0)

\* C9: when run_discovery_batch finishes without an exception the run is
\* 'completed' with completed_at set and error_message null,
\* tracks_processed is the number of ids score_and_persist was attempted
\* for and tracks_updated the number of those attempts that stored a score.
C9_CompletedRunCounts ==
    (batch.pc = "idle" /\ batch.run # 0 /\ runs[batch.run].status # "failed")
    => LET run == runs[batch.run] IN
       /\ run.status = "completed"
       /\ run.completed_at # NULL
       /\ run.error_message = NULL_TEXT
       /\ batch.i = Len(batch.track_ids) + 1
       /\ run.tracks_processed = CountKnown(batch.track_ids, Len(batch.track_ids))
       /\ run.tracks_updated = Len(scores) - batch.base

\* a completed run that attempted two tracks and scored one of them
C9_Witness ==
    /\ batch.pc = "idle"
    /\ batch.run # 0
    /\ runs[batch.run].status = "completed"
    /\ runs[batch.run].tracks_processed = 2
    /\ runs[batch.run].tracks_updated = 1

\* C10: the audit record is committed as 'running' before the first track
\* of the batch is scored; its status then changes exactly once, to
\* 'completed' or 'failed'; a run that has returned is never 'running'.
C10_RunStatusLifecycle ==
    /\ [][Len(runs') # Len(runs)
            => /\ runs' = Append(runs, runs'[Len(runs')])
               /\ runs'[Len(runs')].status = "running"
               /\ batch'.run = Len(runs')
               /\ batch'.i = 1
               /\ scores' = scores]_vars
    /\ [][\A r \in 1..Len(runs) :
            runs'[r].status # runs[r].status
            => /\ runs[r].status = "running"
               /\ runs'[r].status \in {"completed", "failed"}
               /\ batch.run = r /\ batch.pc = "loop" /\ batch'.pc = "idle"]_vars
    /\ [](\A r \in 1..Len(runs) :
            runs[r].status = "running" <=> (batch.pc = "loop" /\ batch.run = r))

\* a run is still 'running' while a row of its batch is already stored
C10_Witness ==
    /\ batch.pc = "loop"
    /\ runs[batch.run].status = "running"
    /\ Len(scores) > batch.base

\* ------------------------------------------------- extractors and scorers
\* C13: for a track with zero TrackMetric rows every metric-based feature
\* extractor returns 0 (0.0, False or count 0) and both scorers return a
\* total score of 0 with passes_threshold False; no call raises.
C13_NoMetricsScoreZero ==
    (reply.op # "" /\ reply.rows = 0)
    => /\ reply.op = "features"
          => /\ \A f \in {"calculate_posts_velocity", "calculate_views_velocity",
                         "calculate_stream_consistency", "calculate_stream_growth",
                         "calculate_active_months_ratio", "calculate_playlist_growth",
                         "calculate_recency_score"} : reply.value[f] = RZero
             /\ \A f \in {"has_tiktok_momentum", "calculate_cross_platform_confirmation",
                         "has_chart_entry", "has_chart_presence"} :
                    reply.value[f] = FALSE
             /\ reply.value.get_data_points_count = 0
       /\ reply.op = "calculate_score"
          => /\ reply.value.total_score = RZero
             /\ reply.value.passes_threshold = FALSE
             /\ \A f \in DOMAIN reply.value.components :
                    reply.value.components[f] = RZero

\* the extractors have been run on the track that has no metric row
C13_Witness ==
    /\ reply.op = "features"
    /\ reply.track_id = "t2"
    /\ reply.rows = 0
    /\ metrics["t2"] = <<>>

\* the reply was computed at the present clock reading on the present
\* metric rows of its track: calling again now is the call it answers
ReplyIsCurrent ==
    /\ reply.op # ""
    /\ reply.at = now
    /\ reply.rows = Len(metrics[reply.track_id])

\* the three velocity features and the column each compares
VelocityColumn ==
    [calculate_posts_velocity |-> "tiktok_posts_7d",
     calculate_views_velocity |-> "tiktok_views_7d",
     calculate_stream_growth |-> "spotify_streams_7d"]

\* C15: for each velocity feature, when both snapshots exist and the
\* baseline value is 0, the result is the cap 10.0 if the recent value is
\* positive and 0.0 if the recent value is 0 too.
C15_ZeroBaselineIsCapped ==
    (ReplyIsCurrent /\ reply.op = "features")
    => LET t == reply.track_id
           r == RecentSnapshot(t, 7)
           b == BaselineSnapshot(t, 7, 30)
       IN  (r # 0 /\ b # 0)
           => \A f \in DOMAIN VelocityColumn :
                 LET R == metrics[t][r][VelocityColumn[f]]
                     B == metrics[t][b][VelocityColumn[f]]
                 IN  /\ (B = 0 /\ R > 0) => reply.value[f] = RInt(10)
                     /\ (B = 0 /\ R = 0) => reply.value[f] = RZero

\* the latest row of track_id whose age in days lies in lo_age..hi_age
\* (0: there is none)
LatestAged(track_id, lo_age, hi_age) ==
    FirstDesc({i \in 1..Len(metrics[track_id]) :
                  /\ now - metrics[track_id][i].timestamp >= lo_age
                  /\ now - metrics[track_id][i].timestamp <= hi_age},
              [i \in DOMAIN metrics[track_id] |-> metrics[track_id][i].timestamp])

\* what a velocity feature has to return given the rows r and b taken as
\* recent and baseline: 0 if either is absent, R/B if the baseline value is
\* positive (a null recent value leaves R/B undefined)
VelocityAgrees(track_id, r, b, column, result) ==
    /\ (r = 0 \/ b = 0) => result = RZero
    /\ (r # 0 /\ b # 0)
       => LET R == metrics[track_id][r][column]
              B == metrics[track_id][b][column]
          IN  (R # NULL /\ B # NULL /\ B > 0) => result = Rat(R, B)

\* C16 as stated: recent is the latest row at most 7 days old, baseline the
\* latest row at least 7 and at most 30 days old; the velocity is 0 if
\* either is absent and R/B if the baseline value is positive.
C16_BaselineFromSevenDays ==
    (ReplyIsCurrent /\ reply.op = "features")
    => \A f \in DOMAIN VelocityColumn :
          VelocityAgrees(reply.track_id,
                         LatestAged(reply.track_id, 0, 7),
                         LatestAged(reply.track_id, 7, 30),
                         VelocityColumn[f], reply.value[f])

\* C16 amended: recent is the latest row at most 7 days old, baseline the
\* latest row more than 7 and at most 30 days old; the velocity is 0 if
\* either is absent and R/B if the baseline value is positive.
C16_BaselineOlderThanSevenDays ==
    (ReplyIsCurrent /\ reply.op = "features")
    => \A f \in DOMAIN VelocityColumn :
          VelocityAgrees(reply.track_id,
                         LatestAged(reply.track_id, 0, 7),
                         LatestAged(reply.track_id, 8, 30),
                         VelocityColumn[f], reply.value[f])

\* posts velocity 10 was returned for a track that has a row exactly 7 days
\* old (200 posts) and an older baseline row (20 posts)
C16_Witness ==
    /\ ReplyIsCurrent
    /\ reply.op = "features"
    /\ reply.value.calculate_posts_velocity = RInt(10)
    /\ LatestAged(reply.track_id, 7, 7) # 0
    /\ LatestAged(reply.track_id, 8, 30) # 0
    /\ metrics[reply.track_id][LatestAged(reply.track_id, 8, 30)].tiktok_posts_7d = 20

\* C17: calculate_stream_consistency returns 0.0 when fewer than 30
\* positive-valued stream observations lie in the 180-day window, 1.0 when
\* at least 30 do and all have the same value, and always a value in [0, 1].
C17_ConsistencyNeedsThirtyPoints ==
    (ReplyIsCurrent /\ reply.op = "features")
    => LET t == reply.track_id
           positive == ActiveRows(t, 180)
           result == reply.value.calculate_stream_consistency
       IN  /\ Cardinality(positive) < 30 => result = RZero
           /\ (/\ Cardinality(positive) >= 30
               /\ \A i, j \in positive :
                     metrics[t][i].spotify_streams = metrics[t][j].spotify_streams)
              => result = ROne
           /\ RLeq(RZero, result) /\ RLeq(result, ROne)

\* C18: the trending gate passes exactly when a metric row exists within
\* the last 7 days, its TikTok 7-day posts, if non-null, is at least 50, its
\* Spotify 7-day streams, if non-null, is at least 10,000, and at least 7
\* metric rows lie in the trailing 30 days.
C18_TrendingGateExact ==
    (ReplyIsCurrent /\ reply.op = "calculate_score" /\ reply.kind = "trending")
    => LET t == reply.track_id
           r == LatestAged(t, 0, 7)
       IN  reply.value.passes_threshold
           <=> /\ r # 0
               /\ metrics[t][r].tiktok_posts_7d # NULL
                  => metrics[t][r].tiktok_posts_7d >= 50
               /\ metrics[t][r].spotify_streams_7d # NULL
                  => metrics[t][r].spotify_streams_7d >= 10000
               /\ Cardinality({i \in 1..Len(metrics[t]) :
                                  now - metrics[t][i].timestamp <= 30}) >= 7

\* the rows of track_id at most 180 days old that report spotify_streams
StreamRows180(track_id) ==
    {i \in 1..Len(metrics[track_id]) :
        /\ now - metrics[track_id][i].timestamp <= 180
        /\ metrics[track_id][i].spotify_streams # NULL}

RECURSIVE SumStreams(_, _)
SumStreams(track_id, rows) ==
    IF rows = {} THEN 0
    ELSE LET i == CHOOSE x \in rows : TRUE
         IN  metrics[track_id][i].spotify_streams + SumStreams(track_id, rows \ {i})

\* C19: a track passes the evergreen gate only if it has a streaming
\* observation in the trailing 180 days and the mean of these observations
\* is at least 5,000; all-zero observations fail the gate.
C19_EvergreenGateNeedsMeanStreams ==
    (ReplyIsCurrent /\ reply.op = "calculate_score" /\ reply.kind = "evergreen"
        /\ reply.value.passes_threshold)
    => LET rows == StreamRows180(reply.track_id)
       IN  /\ rows # {}
           /\ SumStreams(reply.track_id, rows) >= 5000 * Cardinality(rows)

SelectionIsCurrent ==
    /\ reply.op = "select_tracks"
    /\ reply.at = now
    /\ reply.rows = TotalRows

\* a candidate of the selector that passes the gate with at least min_score
IsEligible(kind, track_id, min_score) ==
    /\ \E i \in DOMAIN Candidates(kind, 6) : Candidates(kind, 6)[i] = track_id
    /\ calculate_score(kind, track_id).passes_threshold
    /\ RLeq(min_score, calculate_score(kind, track_id).total_score)

\* C11: select_tracks returns only tracks that pass the gate with a score
\* of at least min_score, in descending order of score, at most limit of
\* them, and no eligible track it leaves out scores higher than one it
\* returns.
C11_SelectTopByScore ==
    (SelectionIsCurrent /\ reply.value.result = "returned")
    => LET list == reply.value.list
           returned == {list[i].track_id : i \in DOMAIN list}
           score(t) == calculate_score(reply.kind, t).total_score
       IN  /\ \A t \in returned : IsEligible(reply.kind, t, reply.value.min_score)
           /\ \A i, j \in DOMAIN list :
                 i < j => RLeq(score(list[j].track_id), score(list[i].track_id))
           /\ Len(list) <= reply.value.limit
           /\ \A t \in TrackIds \ returned :
                 IsEligible(reply.kind, t, reply.value.min_score)
                 => \A u \in returned : RLeq(score(t), score(u))

\* C12: select_tracks leaves the Track, TrackMetric, TrackScore and
\* DiscoveryRun rows as it found them.
C12_SelectStoresNothing ==
    [][(reply' # reply /\ reply'.op = "select_tracks")
          => UNCHANGED <<tracks, metrics, scores, runs>>]_vars

\* a selection has been returned that holds a track and left another
\* eligible one out
C12_Witness ==
    /\ reply.op = "select_tracks"
    /\ reply.value.result = "returned"
    /\ Len(reply.value.list) = 1
    /\ reply.value.limit = 1
    /\ \E t \in TrackIds :
          /\ t # reply.value.list[1].track_id
          /\ SelectionIsCurrent
          /\ IsEligible(reply.kind, t, reply.value.min_score)

\* C14: the shipped weight tables each sum to 1.0 within 0.001, and a
\* table whose sum is off by 0.001 or more is never loaded: the import
\* fails and no calculate_score call returns.
C14_BadWeightsNeverScore ==
    /\ Abs(SumValues(TRENDING_WEIGHTS) - 10000) < 10
    /\ Abs(SumValues(EVERGREEN_WEIGHTS) - 10000) < 10
    /\ (\/ Abs(SumValues(scoring.TRENDING_WEIGHTS) - 10000) >= 10
        \/ Abs(SumValues(scoring.EVERGREEN_WEIGHTS) - 10000) >= 10)
       => /\ scoring.status \in {"unloaded", "failed"}
          /\ reply.op # "calculate_score"

\* the import has failed on an evergreen table that is off by 0.0011
\* while the trending table is exact
C14_Witness ==
    /\ scoring.status = "failed"
    /\ SumValues(scoring.TRENDING_WEIGHTS) = 10000
    /\ SumValues(scoring.EVERGREEN_WEIGHTS) = 10011
    /\ reply.op = ""

RECURSIVE WeightedSum(_, _, _)
WeightedSum(components, weights, names) ==
    IF names = {} THEN RZero
    ELSE LET f == CHOOSE x \in names : TRUE
         IN  RAdd(RMul(Rat(weights[f], 10000), components[f]),
                  WeightedSum(components, weights, names \ {f}))

\* the velocity components and the raw ratio each normalizes
RawVelocity(track_id) ==
    [tiktok_posts_velocity |-> calculate_posts_velocity(track_id),
     tiktok_views_velocity |-> calculate_views_velocity(track_id),
     spotify_stream_growth |-> calculate_stream_growth(track_id),
     playlist_growth |-> calculate_playlist_growth(track_id)]

BooleanComponents == {"cross_platform_boost", "chart_entry_bonus", "chart_persistence"}

\* C22: every component calculate_score returns lies in [0, 1], a
\* boolean-style component is 0 or 1, a velocity component is 0 for a
\* ratio of at most 1, 1 for a ratio of at least 10 and (ratio - 1) / 9 in
\* between, and total_score is 100 times the weighted sum of the
\* components, which lies in [0, 100].
C22_ComponentsAndTotalInRange ==
    (ReplyIsCurrent /\ reply.op = "calculate_score")
    => LET c == reply.value.components
           w == IF reply.kind = "trending" THEN TRENDING_WEIGHTS ELSE EVERGREEN_WEIGHTS
           raw == RawVelocity(reply.track_id)
       IN  /\ \A f \in DOMAIN c : RLeq(RZero, c[f]) /\ RLeq(c[f], ROne)
           /\ \A f \in DOMAIN c \cap BooleanComponents : c[f] \in {RZero, ROne}
           /\ reply.kind = "trending"
              => \A f \in DOMAIN raw :
                    /\ RLeq(raw[f], ROne) => c[f] = RZero
                    /\ RLeq(RInt(10), raw[f]) => c[f] = ROne
                    /\ (RLess(ROne, raw[f]) /\ RLess(raw[f], RInt(10)))
                       => RMul(c[f], RInt(9)) = RAdd(raw[f], RInt(-1))
           /\ reply.value.total_score = RMul(RInt(100), WeightedSum(c, w, DOMAIN w))
           /\ RLeq(RZero, reply.value.total_score)
           /\ RLeq(reply.value.total_score, RInt(100))

\* a trending score has been returned whose stream-growth component lies
\* strictly between 0 and 1 (ratio 2)
C22_Witness ==
    /\ ReplyIsCurrent
    /\ reply.op = "calculate_score"
    /\ reply.kind = "trending"
    /\ calculate_stream_growth(reply.track_id) = RInt(2)
    /\ reply.value.components.spotify_stream_growth = <<1, 9>>
    /\ RLess(RZero, reply.value.total_score)

\* C23: cross_platform_boost is 1.0 only if the recent snapshot reports
\* strictly more TikTok 7-day posts and strictly more Spotify 7-day
\* streams than the baseline snapshot; the raw posts velocity and the raw
\* stream growth of the same history are then both greater than 1.
C23_BoostNeedsBothPlatforms ==
    (ReplyIsCurrent /\ reply.op = "calculate_score" /\ reply.kind = "trending"
        /\ reply.value.components.cross_platform_boost = ROne)
    => LET t == reply.track_id
           r == LatestAged(t, 0, 7)
           b == LatestAged(t, 8, 30)
       IN  /\ r # 0 /\ b # 0
           /\ metrics[t][r].tiktok_posts_7d # NULL
           /\ metrics[t][b].tiktok_posts_7d # NULL
           /\ metrics[t][r].tiktok_posts_7d > metrics[t][b].tiktok_posts_7d
           /\ metrics[t][r].spotify_streams_7d # NULL
           /\ metrics[t][b].spotify_streams_7d # NULL
           /\ metrics[t][r].spotify_streams_7d > metrics[t][b].spotify_streams_7d
           /\ RLess(ROne, calculate_posts_velocity(t))
           /\ RLess(ROne, calculate_stream_growth(t))

\* a score with cross_platform_boost 1.0 has been returned
C23_Witness ==
    /\ ReplyIsCurrent
    /\ reply.op = "calculate_score"
    /\ reply.kind = "trending"
    /\ reply.value.components.cross_platform_boost = ROne
    /\ calculate_posts_velocity(reply.track_id) = RInt(10)
    /\ calculate_stream_growth(reply.track_id) = RInt(2)

\* C24: every explanation explain_trending returns holds exactly one of the
\* two cross-platform statements: the reason "Growing on BOTH TikTok and
\* Spotify (high confidence)" in why_selected when cross_platform_boost is
\* 1.0, otherwise the risk flag "Single-platform growth only (may not
\* translate)"; the track with TikTok posts 20 -> 200 and flat Spotify
\* streams is scored with boost 0.0 and carries the risk flag.
C24_OneCrossPlatformStatement ==
    (call.pc = "done" /\ call.kind = "trending" /\ call.result.outcome = "row")
    => LET both == Mentions(call.result.why_selected,
                            "Growing on BOTH TikTok and Spotify (high confidence)")
           single == Mentions(call.result.risk_flags,
                              "Single-platform growth only (may not translate)")
           flagged == Mentions(call.result.why_selected,
                               "Single-platform growth only (may not translate)")
           praised == Mentions(call.result.risk_flags,
                               "Growing on BOTH TikTok and Spotify (high confidence)")
       IN  /\ ~flagged /\ ~praised
           /\ (call.result.components.cross_platform_boost = ROne) => (both /\ ~single)
           /\ (call.result.components.cross_platform_boost # ROne) => (single /\ ~both)
           /\ (metrics[call.track_id] = History("viral") /\ now = Now0)
              => (call.result.components.cross_platform_boost = RZero /\ single)

\* the track with posts 20 -> 200 and flat streams has been explained
C24_Witness ==
    /\ call.pc = "done"
    /\ call.kind = "trending"
    /\ call.result.outcome = "row"
    /\ metrics[call.track_id] = History("viral")
    /\ now = Now0
    /\ call.result.components.tiktok_posts_velocity = ROne
    /\ Mentions(call.result.risk_flags,
                "Single-platform growth only (may not translate)")

\* C26: every velocity figure V quoted in a why_selected sentence of a
\* trending explanation agrees with the component that triggered the
\* sentence (normalized value > 0.5), that is V > 5.5, also when metric
\* rows are appended between the scoring and the explanation.
C26_QuotedVelocityMatchesComponent ==
    (call.pc = "done" /\ call.kind = "trending" /\ call.result.outcome = "row")
    => \A i \in DOMAIN call.result.why_selected :
          call.result.why_selected[i].figure # <<>>
          => RLess(<<11, 2>>, call.result.why_selected[i].figure)

\* the calendar months of the trailing 365 days in which track_id reports
\* positive Spotify streams
StreamedMonths(track_id) ==
    {MonthKey(metrics[track_id][i].timestamp) :
        i \in {j \in 1..Len(metrics[track_id]) :
                  /\ now - metrics[track_id][j].timestamp <= 365
                  /\ metrics[track_id][j].spotify_streams # NULL
                  /\ metrics[track_id][j].spotify_streams > 0}}

\* C25: a track with positive Spotify streams in exactly 6 distinct
\* calendar months of the trailing 365 days meets the evergreen gate's
\* minimum-active-months requirement (ratio >= 6/12) and, with at least 90
\* rows and a mean of at least 5,000 streams, passes the gate; 10 active
\* months yield the ratio 10/12.
C25_SixActiveMonthsMeetGate ==
    (ReplyIsCurrent /\ reply.op = "calculate_score" /\ reply.kind = "evergreen")
    => LET t == reply.track_id
           rows == StreamRows180(t)
       IN  /\ Cardinality(StreamedMonths(t)) = 6
              => /\ RLeq(Rat(6, 12), reply.value.components.active_months_ratio)
                 /\ (/\ Cardinality({i \in 1..Len(metrics[t]) :
                                        now - metrics[t][i].timestamp <= 365}) >= 90
                     /\ rows # {}
                     /\ SumStreams(t, rows) >= 5000 * Cardinality(rows))
                    => reply.value.passes_threshold
           /\ Cardinality(StreamedMonths(t)) = 10
              => reply.value.components.active_months_ratio = Rat(10, 12)

\* C27: run_discovery_batch skips an id that matches no Track row without
\* counting or scoring it; on the returned run tracks_updated <=
\* tracks_processed <= number of ids passed in, and a completed run has
\* added as many TrackScore rows as its tracks_updated says.
C27_BatchSkipsUnknownIds ==
    /\ [](\A i \in DOMAIN scores : scores[i].track_id \in DOMAIN tracks)
    /\ []((batch.pc = "idle" /\ batch.run # 0)
            => /\ runs[batch.run].tracks_updated <= runs[batch.run].tracks_processed
               /\ runs[batch.run].tracks_processed <= Len(batch.track_ids)
               /\ runs[batch.run].status = "completed"
                  => Len(scores) - batch.base = runs[batch.run].tracks_updated)
    /\ [][(/\ batch.pc = "loop"
           /\ batch.i <= Len(batch.track_ids)
           /\ batch.track_ids[batch.i] \notin DOMAIN tracks
           /\ batch' # batch)
          => /\ batch' = [batch EXCEPT !.i = @ + 1]
             /\ scores' = scores
             /\ runs' = runs]_vars

\* a batch holding an unknown id has completed: two of its three ids were
\* processed and at least one was scored
C27_Witness ==
    /\ batch.pc = "idle"
    /\ batch.run # 0
    /\ runs[batch.run].status = "completed"
    /\ \E i \in DOMAIN batch.track_ids : batch.track_ids[i] = GhostId
    /\ runs[batch.run].tracks_processed = Len(batch.track_ids) - 1
    /\ runs[batch.run].tracks_updated >= 1
    /\ Len(scores) - batch.base = runs[batch.run].tracks_updated

\* client c enters a request in this step: its position query runs
Enters(c, op) ==
    /\ requests[c].pc \in {"idle", "done"}
    /\ requests'[c] # requests[c]
    /\ requests'[c].op = op

\* C28: whatever the sequence or interleaving of add, update and remove
\* requests, no two active pinned songs share a pin_position; an add, or
\* an update of an existing song, whose position is held by another active
\* song is answered 409 Conflict and changes no pinned song.
C28_ActivePositionsDistinct ==
    /\ [](\A i, j \in DOMAIN pinned :
            (pinned[i].is_active /\ pinned[j].is_active
                /\ pinned[i].pin_position = pinned[j].pin_position) => i = j)
    /\ [][\A c \in Clients :
            /\ (Enters(c, "add")
                  /\ ActiveAt(pinned, requests'[c].pin_position, 0) # {})
               => (requests'[c].response = "409" /\ requests'[c].pc = "done"
                      /\ pinned' = pinned)
            /\ (Enters(c, "update")
                  /\ requests'[c].id \in DOMAIN pinned
                  /\ requests'[c].pin_position # 0
                  /\ ActiveAt(pinned, requests'[c].pin_position, requests'[c].id) # {})
               => (requests'[c].response = "409" /\ requests'[c].pc = "done"
                      /\ pinned' = pinned)
            /\ (requests'[c].response = "409" /\ requests[c].response # "409")
               => pinned' = pinned]_vars

\* two active songs at different positions, an add and an update both
\* answered 409
C28_Witness ==
    /\ Cardinality({i \in DOMAIN pinned : pinned[i].is_active}) = 2
    /\ requests["c1"].op = "add" /\ requests["c1"].response = "409"
    /\ requests["c2"].op = "update" /\ requests["c2"].response = "409"

\* C29: once remove_pinned_song has soft-deleted the song at position p,
\* and no active song holds p, an add_pinned_song at p succeeds and the
\* new song is the only active song at p.
C29_RemovedPositionIsFree ==
    [][\A c \in Clients :
         (/\ requests[c].pc = "commit"
          /\ requests[c].op = "add"
          /\ requests'[c].pc = "done"
          /\ ActiveAt(pinned, requests[c].pin_position, 0) = {}
          /\ \E i \in DOMAIN pinned :
                pinned[i].pin_position = requests[c].pin_position
                /\ ~pinned[i].is_active)
         => /\ requests'[c].response = "200"
            /\ ActiveAt(pinned', requests[c].pin_position, 0) = {Len(pinned')}]_vars

\* C30: a shortlist item's contacted_at is null until its status is first
\* set to 'contacted', is set by that update and never changes afterwards,
\* whatever updates follow; the status is always one of new, contacted,
\* interested, passed, signed, and an update carrying another status is
\* answered 400 and changes no item.
C30_ContactedAtSetOnce ==
    /\ [](\A i \in DOMAIN shortlists :
            ~shortlists[i].deleted
            => /\ shortlists[i].status \in valid_statuses
               /\ shortlists[i].status = "contacted"
                  => shortlists[i].contacted_at # NULL)
    /\ [][\A i \in DOMAIN shortlists :
            ~shortlists'[i].deleted
            => /\ shortlists[i].contacted_at # NULL
                  => shortlists'[i].contacted_at = shortlists[i].contacted_at
               /\ (shortlists[i].contacted_at = NULL
                     /\ shortlists'[i].contacted_at # NULL)
                  => /\ shortlists'[i].status = "contacted"
                     /\ shortlists'[i].contacted_at = now]_vars
    /\ [][Len(shortlists') > Len(shortlists)
            => /\ shortlists'[Len(shortlists')].contacted_at = NULL
               /\ shortlists'[Len(shortlists')].status = "new"]_vars
    /\ [][(/\ requests'["c1"] # requests["c1"]
           /\ requests'["c1"].op = "update_shortlist_item"
           /\ requests'["c1"].status \notin valid_statuses \cup {NULL_TEXT})
          => /\ shortlists' = shortlists
             /\ requests'["c1"].response \in {"400", "404"}]_vars

\* an item whose contacted_at dates from an earlier day than the clock
\* shows, its notes updated, its latest update to 'contacted' answered 200
C30_Witness ==
    /\ requests["c1"].op = "update_shortlist_item"
    /\ requests["c1"].status = "contacted"
    /\ requests["c1"].response = "200"
    /\ requests["c1"].id \in DOMAIN shortlists
    /\ shortlists[requests["c1"].id].status = "contacted"
    /\ shortlists[requests["c1"].id].contacted_at # NULL
    /\ shortlists[requests["c1"].id].contacted_at < now
    /\ shortlists[requests["c1"].id].notes = "called"

====
